---------------------------- MODULE Spec2Model ----------------------------
(***************************************************************************)
(* KEKCONVERTERS: conversion of object-detection annotations between       *)
(* Darknet, PASCAL VOC and MS COCO through the KEK intermediate            *)
(* representation (KEKBox, KEKObject, KEKImage).                           *)
(*                                                                         *)
(* Conventions of the model.                                               *)
(*  - A Python str is a sequence of one-character strings, so that find,   *)
(*    slicing, split, int() and Decimal() are computed on the text.        *)
(*  - A decimal.Decimal is a record [c, e] standing for c / 10^e.  Every   *)
(*    operation the code performs is exact on the values of this model     *)
(*    (1/side terminates for the image sides used), far below the 28       *)
(*    digits of the decimal context; float() of such a value followed by   *)
(*    str() gives the same decimal back (<= 15 significant digits).        *)
(*  - An optional value (None or a value) is a sequence of length 0 or 1.  *)
(*  - A dict is the sequence of its items in insertion order; its values   *)
(*    carry their Python type.                                             *)
(*  - A converter's outcome is [ok, err, val]: the value returned, or the  *)
(*    type of the exception that leaves it.  Reading the annotation file   *)
(*    and probing the image file always succeed.                           *)
(*  - SpecBox exercises KEKBox alone, SpecDarknet the Darknet adapter,     *)
(*    SpecVoc the PASCAL VOC decoder.                                      *)
(***************************************************************************)
EXTENDS Integers, Sequences, FiniteSets, TLC

VARIABLES
    image,          \* the image file: [name, path, folder, shape]
    kek_box,        \* box level: the KEKBox last constructed (optional)
    arg,            \* box level: the input of that construction (optional)
    ret,            \* box level: the value last returned by a to_* method
    class_mapper,   \* the caller's class mapper (a function)
    image_id,       \* the id the caller gives to the image
    annotation,     \* content of the source annotation file
    kek_image,      \* the decoded KEKImage (optional)
    target,         \* the encoder's output (optional)
    error,          \* the exception that left the last call (optional)
    warnings,       \* the warnings emitted so far
    source_annotation_name, \* the format of the source annotation
    mscoco_hard,    \* MS COCO: one JSON file for all images (hard mode)
    coco_categories, \* MS COCO: the category table handed to the decoder
    to_converter,   \* the encoder that produced target
    coco_images,    \* MS COCO, hard mode: file name -> image record
    coco_annotations, \* MS COCO, hard mode: image id -> annotations
    image_paths,    \* batch: the images to convert, each with its annotation
    n_jobs,         \* batch: the number of chunks
    target_annotation_name, \* batch: the format to convert to
    mscoco_info_path,     \* batch: the info file, when configured (optional)
    mscoco_licenses_path, \* batch: the licenses file, when configured (optional)
    pc,             \* batch: the step the run is at
    chunks,         \* batch: get_chunks(image_paths, n_jobs)
    chunk_no,       \* batch: the chunk conversion_loop is working on
    categories_,    \* conversion_loop: categories
    coco_simple_categories, \* conversion_loop: coco_simple_categories
    mscoco_main_dict, \* conversion_loop: mscoco_main_dict
    results,        \* batch: the result_dict of every chunk finished
    written,        \* batch: the annotation files written, in order
    document        \* batch: what process_conversion_results saved (optional)

vars == <<image, kek_box, arg, ret, class_mapper, image_id, annotation,
          kek_image, target, error, warnings, source_annotation_name,
          mscoco_hard, coco_categories, to_converter, coco_images,
          coco_annotations, image_paths, n_jobs, target_annotation_name,
          mscoco_info_path, mscoco_licenses_path, pc, chunks, chunk_no,
          categories_, coco_simple_categories, mscoco_main_dict, results,
          written, document>>

boxVars == <<kek_box, arg, ret>>
batchVars == <<image_paths, n_jobs, target_annotation_name, mscoco_info_path,
               mscoco_licenses_path, pc, chunks, chunk_no, categories_,
               coco_simple_categories, mscoco_main_dict, results, written,
               document>>
runVars == <<source_annotation_name, mscoco_hard, coco_categories, coco_images,
             coco_annotations, batchVars>>
convVars == <<class_mapper, image_id, annotation, kek_image, target, warnings,
              runVars, to_converter>>

None == <<>>
Some(x) == <<x>>
IsNone(o) == Len(o) = 0
IsSome(o) == Len(o) = 1

-----------------------------------------------------------------------------
(* Bounds of the model.                                                    *)

\* int boxes handed to the constructors have coordinates in -1..MaxCoord
MaxCoord == 2
\* a box goes at most MaxRoundTrips times through to_darknet_box and back
MaxRoundTrips == 1
\* a Darknet label file has at most MaxLines lines
MaxLines == 2
\* a PASCAL VOC annotation has at most MaxObjects <object> elements
MaxObjects == 2

-----------------------------------------------------------------------------
(* Python str: sequences of characters.                                    *)

Digits == <<"0", "1", "2", "3", "4", "5", "6", "7", "8", "9">>
DigitSet == {Digits[i] : i \in 1..10}
DigitVal(ch) == (CHOOSE i \in 1..10 : Digits[i] = ch) - 1
Whitespace == {" ", "\n"}

RECURSIVE Pow10(_)
Pow10(n) == IF n = 0 THEN 1 ELSE 10 * Pow10(n - 1)

Abs(n) == IF n < 0 THEN -n ELSE n

\* F(x) with x evaluated once, as Python evaluates an argument before a call
ByValue(F(_), x) == CHOOSE r \in {F(v) : v \in {x}} : TRUE

\* s[a:b] with 0-based, half-open, non-negative indices
Slice(s, a, b) == SubSeq(s, a + 1, b)

\* str.find(ch): 0-based index of the first occurrence, -1 when absent
Find(s, ch) ==
    ByValue(LAMBDA v :
                IF \E i \in 1..Len(v) : v[i] = ch
                THEN (CHOOSE i \in 1..Len(v) :
                          v[i] = ch /\ \A j \in 1..(i - 1) : v[j] /= ch) - 1
                ELSE -1,
            s)

\* s[:k] for any integer k (a negative k counts from the end)
Prefix(s, k) ==
    IF k >= 0 THEN Slice(s, 0, IF k > Len(s) THEN Len(s) ELSE k)
    ELSE Slice(s, 0, IF Len(s) + k < 0 THEN 0 ELSE Len(s) + k)

\* s[k:] for k >= 0
Suffix(s, k) == Slice(s, k, Len(s))

\* str.split(sep) with a one-character separator: always at least one piece
RECURSIVE Split(_, _)
Split(s, sep) ==
    ByValue(LAMBDA v :
                ByValue(LAMBDA p : IF p = -1 THEN <<v>>
                                   ELSE <<Slice(v, 0, p)>> \o Split(Suffix(v, p + 1), sep),
                        Find(v, sep)),
            s)

\* sep.join(pieces)
RECURSIVE Join(_, _)
Join(pieces, sep) ==
    ByValue(LAMBDA v : IF Len(v) = 0 THEN <<>>
                       ELSE IF Len(v) = 1 THEN v[1]
                       ELSE v[1] \o <<sep>> \o Join(Tail(v), sep),
            pieces)

\* str.strip() for the whitespace of the model
RECURSIVE LStrip(_)
LStrip(s) ==
    ByValue(LAMBDA v : IF Len(v) > 0 /\ v[1] \in Whitespace THEN LStrip(Tail(v)) ELSE v, s)
RECURSIVE RStrip(_)
RStrip(s) ==
    ByValue(LAMBDA v : IF Len(v) > 0 /\ v[Len(v)] \in Whitespace
                       THEN RStrip(Slice(v, 0, Len(v) - 1)) ELSE v,
            s)
Strip(s) == RStrip(LStrip(s))

IsDigits(s) == ByValue(LAMBDA v : \A i \in 1..Len(v) : v[i] \in DigitSet, s)

RECURSIVE NatOf(_)
NatOf(s) ==
    ByValue(LAMBDA v : IF Len(v) = 0 THEN 0
                       ELSE 10 * NatOf(Slice(v, 0, Len(v) - 1)) + DigitVal(v[Len(v)]),
            s)

\* str(n) for an int n
RECURSIVE StrNat(_)
StrNat(n) == IF n < 10 THEN <<Digits[n + 1]>>
             ELSE StrNat(n \div 10) \o <<Digits[(n % 10) + 1]>>
StrInt(n) == IF n < 0 THEN <<"-">> \o StrNat(-n) ELSE StrNat(n)

HasSign(s) == Len(s) > 0 /\ s[1] \in {"-", "+"}
Unsigned(s) == IF HasSign(s) THEN Tail(s) ELSE s
SignOf(s) == IF Len(s) > 0 /\ s[1] = "-" THEN -1 ELSE 1

\* int(s): [ok, val]; ok = FALSE stands for ValueError
ParseInt(s) ==
    ByValue(LAMBDA t :
                LET body == Unsigned(t)
                IN  IF Len(body) > 0 /\ IsDigits(body)
                    THEN [ok |-> TRUE, val |-> SignOf(t) * NatOf(body)]
                    ELSE [ok |-> FALSE, val |-> 0],
            Strip(s))

-----------------------------------------------------------------------------
(* decimal.Decimal: [c, e] is the number c / 10^e, e >= 0.                 *)

\* precision (significant digits) of the default decimal context
DecimalPrec == 28

Dec(c, e) == [c |-> c, e |-> e]
DecOfInt(n) == Dec(n, 0)

\* the same number without trailing zeros in the fraction
RECURSIVE Norm(_)
Norm(d) == IF d.e > 0 /\ d.c % 10 = 0 THEN Norm(Dec(d.c \div 10, d.e - 1)) ELSE d

MaxOf(a, b) == IF a >= b THEN a ELSE b
\* d's coefficient at e decimal places, e >= d.e
CoefAt(d, e) == d.c * Pow10(e - d.e)

DecAdd(a, b) ==
    LET e == MaxOf(a.e, b.e) IN Norm(Dec(CoefAt(a, e) + CoefAt(b, e), e))
DecSub(a, b) ==
    LET e == MaxOf(a.e, b.e) IN Norm(Dec(CoefAt(a, e) - CoefAt(b, e), e))
DecMul(a, b) == Norm(Dec(a.c * b.c, a.e + b.e))

RECURSIVE NumDigits(_)
NumDigits(n) == IF n < 10 THEN 1 ELSE 1 + NumDigits(n \div 10)

\* long division of two positive integers: digits are produced until the
\* remainder is zero, or until the quotient has DecimalPrec significant
\* digits, where the context rounds it half-even
RECURSIVE DivDigits(_, _, _)
DivDigits(num, den, e) ==
    LET q == num \div den
        r == num % den
    IN  IF r = 0 THEN Dec(q, e)
        ELSE IF NumDigits(q) >= DecimalPrec
        THEN Dec(IF 2 * r > den \/ (2 * r = den /\ q % 2 = 1) THEN q + 1 ELSE q, e)
        ELSE DivDigits(num * 10, den, e + 1)

\* a / b, b /= 0
DecDiv(a, b) ==
    LET e == MaxOf(a.e, b.e)
        num == CoefAt(a, e)
        den == CoefAt(b, e)
        q == DivDigits(Abs(num), Abs(den), 0)
    IN  Norm(Dec(IF (num >= 0) = (den > 0) THEN q.c ELSE -q.c, q.e))

\* int(d): truncation toward zero
DecToInt(d) == IF d.c >= 0 THEN d.c \div Pow10(d.e) ELSE -((-d.c) \div Pow10(d.e))

DecLeq(a, b) == LET e == MaxOf(a.e, b.e) IN CoefAt(a, e) <= CoefAt(b, e)
DecLt(a, b) == LET e == MaxOf(a.e, b.e) IN CoefAt(a, e) < CoefAt(b, e)
DecAbs(a) == Dec(Abs(a.c), a.e)

\* Decimal(s) for the texts of the model (sign, digits, point, digits):
\* [ok, val]; ok = FALSE stands for decimal.InvalidOperation
ParseDecimal(s) ==
    ByValue(LAMBDA t :
                LET body == Unsigned(t)
                    p == Find(body, ".")
                    ip == IF p = -1 THEN body ELSE Slice(body, 0, p)
                    fp == IF p = -1 THEN <<>> ELSE Suffix(body, p + 1)
                IN  IF IsDigits(ip) /\ IsDigits(fp) /\ Len(ip) + Len(fp) > 0
                    THEN [ok |-> TRUE,
                          val |-> Norm(Dec(SignOf(t) * (NatOf(ip) * Pow10(Len(fp))
                                                        + NatOf(fp)),
                                           Len(fp)))]
                    ELSE [ok |-> FALSE, val |-> Dec(0, 0)],
            Strip(s))

\* the digits of n, left-padded with zeros to width w
RECURSIVE ZeroPad(_, _)
ZeroPad(s, w) == IF Len(s) >= w THEN s ELSE ZeroPad(<<"0">> \o s, w)

\* str(float(d)): shortest text that reads back as the same float, which for
\* a decimal of at most 15 significant digits and magnitude >= 0.0001 is the
\* decimal itself, with at least one digit after the point
StrFloat(d) ==
    LET n == Norm(d)
        a == Abs(n.c)
        ip == StrNat(a \div Pow10(n.e))
        fp == IF n.e = 0 THEN <<"0">> ELSE ZeroPad(StrNat(a % Pow10(n.e)), n.e)
    IN  (IF n.c < 0 THEN <<"-">> ELSE <<>>) \o ip \o <<".">> \o fp

\* float(d): the float nearest to d, held as the decimal it prints as
DecToFloat(d) == Norm(d)

-----------------------------------------------------------------------------
(* conversion/entities.py: KEKBox.                                         *)

KEKBox(top_left_x, top_left_y, bottom_right_x, bottom_right_y) ==
    [top_left_x |-> top_left_x, top_left_y |-> top_left_y,
     bottom_right_x |-> bottom_right_x, bottom_right_y |-> bottom_right_y]

NoBox == KEKBox(0, 0, 0, 0)
\* the outcome of a call: a returned value, or the type of the exception raised
Raise(exc) == [ok |-> FALSE, err |-> exc, val |-> NoBox]
Return(v) == [ok |-> TRUE, err |-> "", val |-> v]

\* (mutant) the product rounded to the nearest int instead of truncated
ScaledRounded(d, side) ==
    LET p == DecMul(d, DecOfInt(side))
        twice == DecToInt(DecMul(p, DecOfInt(2)))
    IN  IF twice >= 0 THEN (twice + 1) \div 2 ELSE -((1 - twice) \div 2)

\* int(d * side) for a Decimal d and an int side
Scaled(d, side) == DecToInt(DecMul(d, DecOfInt(side)))

\* unpacking "a, b, c, d = map(Decimal, pieces)": the pieces are converted one
\* by one, a fifth one too when there is one, before the count is checked
UnpackError(pieces) ==
    LET pulled == IF Len(pieces) > 5 THEN 5 ELSE Len(pieces)
    IN  IF \E i \in 1..pulled : ~ParseDecimal(pieces[i]).ok THEN "InvalidOperation"
        ELSE IF Len(pieces) /= 4 THEN "ValueError"
        ELSE ""

\* "if top_left < 0: top_left = 0"
ClampLow(v) == IF v < 0 THEN 0 ELSE v

\* (mutant) the bottom-right coordinate is left beyond the image side
ClampHighMissing(v, side) == v

\* "if bottom_right > side: bottom_right = side"
ClampHigh(v, side) == IF v > side THEN side ELSE v

\* KEKBox.from_darknet.convert, once the four numbers are unpacked
convert_unpacked(center_x, center_y, box_width, box_height, image_width, image_height) ==
    LET denominator == Dec(2, 0)
        top_left_x == Scaled(DecSub(center_x, DecDiv(box_width, denominator)), image_width)
        top_left_y == Scaled(DecSub(center_y, DecDiv(box_height, denominator)), image_height)
        bottom_right_x == Scaled(DecAdd(center_x, DecDiv(box_width, denominator)), image_width)
        bottom_right_y == Scaled(DecAdd(center_y, DecDiv(box_height, denominator)), image_height)
    IN  Return(KEKBox(ClampLow(top_left_x), ClampLow(top_left_y),
                      ClampHigh(bottom_right_x, image_width),
                      ClampHigh(bottom_right_y, image_height)))

\* KEKBox.from_darknet.convert
convert(str_box, image_width, image_height) ==
    ByValue(LAMBDA pieces :
        ByValue(LAMBDA exc :
            IF exc /= "" THEN Raise(exc)
            ELSE ByValue(LAMBDA d : convert_unpacked(d[1], d[2], d[3], d[4],
                                                     image_width, image_height),
                         [k \in 1..4 |-> ParseDecimal(pieces[k]).val]),
            UnpackError(pieces)),
        Split(str_box, " "))

\* a box argument of from_darknet: a str, or an iterable of floats
StrArg(text) == [is_str |-> TRUE, text |-> text, floats |-> <<>>, ints |-> <<>>]
FloatsArg(floats) == [is_str |-> FALSE, text |-> <<>>, floats |-> floats, ints |-> <<>>]
\* a box argument of KEKBox, from_voc, from_coco: a tuple of ints
IntsArg(ints) == [is_str |-> FALSE, text |-> <<>>, floats |-> <<>>, ints |-> ints]

\* KEKBox.from_darknet
from_darknet(box, image_shape) ==
    LET image_width == image_shape[1]
        image_height == image_shape[2]
    IN  convert(IF ~box.is_str
                THEN Join([i \in 1..Len(box.floats) |-> StrFloat(box.floats[i])], " ")
                ELSE box.text,
                image_width, image_height)

\* KEKBox.from_voc
from_voc(box) == KEKBox(box[1], box[2], box[3], box[4])

\* KEKBox.from_coco
from_coco(box) ==
    LET top_left_x == box[1]
        top_left_y == box[2]
        box_width == box[3]
        box_height == box[4]
    IN  KEKBox(top_left_x, top_left_y, top_left_x + box_width, top_left_y + box_height)

\* (mutant) the normalized top-left corner is returned in place of the center
to_darknet_box_top_left(self, image_shape) ==
    <<DecDiv(DecOfInt(self.top_left_x), DecOfInt(image_shape[1])),
      DecDiv(DecOfInt(self.top_left_y), DecOfInt(image_shape[2])),
      DecDiv(DecOfInt(self.bottom_right_x - self.top_left_x), DecOfInt(image_shape[1])),
      DecDiv(DecOfInt(self.bottom_right_y - self.top_left_y), DecOfInt(image_shape[2]))>>

\* KEKBox.to_darknet_box
to_darknet_box(self, image_shape) ==
    LET image_width == image_shape[1]
        image_height == image_shape[2]
        nominator == Dec(1, 0)
        denominator == Dec(2, 0)
        width_scale_factor == DecDiv(nominator, DecOfInt(image_width))
        height_scale_factor == DecDiv(nominator, DecOfInt(image_height))
        center_x == DecMul(width_scale_factor,
                        DecSub(DecDiv(DecOfInt(self.top_left_x + self.bottom_right_x),
                                      denominator), DecOfInt(1)))
        center_y == DecMul(height_scale_factor,
                        DecSub(DecDiv(DecOfInt(self.top_left_y + self.bottom_right_y),
                                      denominator), DecOfInt(1)))
        box_width == DecMul(width_scale_factor,
                        DecOfInt(self.bottom_right_x - self.top_left_x))
        box_height == DecMul(height_scale_factor,
                        DecOfInt(self.bottom_right_y - self.top_left_y))
    IN  <<DecToFloat(center_x), DecToFloat(center_y),
          DecToFloat(box_width), DecToFloat(box_height)>>

\* (mutant) the coordinates in the order xmin, xmax, ymin, ymax
to_voc_box_by_axis(self) ==
    <<self.top_left_x, self.bottom_right_x, self.top_left_y, self.bottom_right_y>>

\* KEKBox.to_voc_box
to_voc_box(self) ==
    <<self.top_left_x, self.top_left_y, self.bottom_right_x, self.bottom_right_y>>

\* (mutant) the bottom-right corner instead of the width and height
to_coco_box_corners(self) ==
    <<self.top_left_x, self.top_left_y, self.bottom_right_x, self.bottom_right_y>>

\* KEKBox.to_coco_box
to_coco_box(self) ==
    LET box_width == self.bottom_right_x - self.top_left_x
        box_height == self.bottom_right_y - self.top_left_y
    IN  <<self.top_left_x, self.top_left_y, box_width, box_height>>

-----------------------------------------------------------------------------
(* The image files of the model.  get_image_shape probes (width, height,   *)
(* depth); 1/width and 1/height terminate for every side used.             *)

ImageFile(name, folder, shape) ==
    [name |-> name, path |-> folder \o <<"/">> \o name, folder |-> folder, shape |-> shape]

Images ==
    { ImageFile(<<"a", ".", "j", "p", "g">>, <<"i", "m", "g">>, <<10, 10, 3>>),
      ImageFile(<<"b", ".", "j", "p", "g">>, <<"i", "m", "g">>, <<20, 10, 3>>),
      ImageFile(<<"c", ".", "p", "n", "g">>, <<"i", "m", "g">>, <<500, 500, 3>>),
      ImageFile(<<"d", ".", "p", "n", "g">>, <<"i", "m", "g">>, <<250, 500, 3>>) }

\* conversion/utils.py: get_image_shape
get_image_shape(img) == img.shape

-----------------------------------------------------------------------------
(* Box level: the constructors and the to_* methods of KEKBox, called in   *)
(* any order on boxes drawn from the sets below.                           *)

\* src/tests.py: the boxes of the unit tests
PASCAL_VOC_BOX == <<50, 50, 300, 300>>
MS_COCO_BOX == <<50, 50, 250, 250>>

Coords == -1..MaxCoord
IntBoxes ==
    { <<a, b, c, d>> : a \in Coords, b \in Coords, c \in Coords, d \in Coords }
        \cup {PASCAL_VOC_BOX, MS_COCO_BOX}

\* Darknet fractions, in thousandths: centers inside and outside the image,
\* on and off whole pixels
Centers == {-200, 55, 350, 500, 955, 1200}
Sizes == {-100, 0, 100, 350, 600}
CentersAndSizesY == {<<350, 600>>, <<55, 350>>, <<955, 100>>, <<1200, 0>>, <<500, -100>>}
Milli(n) == Norm(Dec(n, 3))
DarknetBoxes ==
    { <<Milli(cx), Milli(yh[1]), Milli(w), Milli(yh[2])>> :
        cx \in Centers, w \in Sizes, yh \in CentersAndSizesY }

\* str of a tuple of floats, as the tests build DARKNET_BOX_STR
StrOfFloats(floats) == Join([i \in 1..Len(floats) |-> StrFloat(floats[i])], " ")

\* a call of a constructor: which one, its argument, and for a Darknet box
\* that to_darknet_box returned: the KEKBox it was computed from and the
\* number of round trips made so far
Call(fn, box, src, trips) == [fn |-> fn, box |-> box, src |-> src, trips |-> trips]
Result(fn, val) == [fn |-> fn, val |-> val]

Calls ==
    { Call("KEKBox", IntsArg(b), None, 0) : b \in IntBoxes }
    \cup { Call("from_voc", IntsArg(b), None, 0) : b \in IntBoxes }
    \cup { Call("from_coco", IntsArg(b), None, 0) : b \in IntBoxes }
    \cup { Call("from_darknet", FloatsArg(b), None, 0) : b \in DarknetBoxes }
    \cup { Call("from_darknet", StrArg(StrOfFloats(b)), None, 0) : b \in DarknetBoxes }

\* no MS COCO input: neither mode nor category table; no encoder chosen yet
\* no batch is run
InitNoBatch ==
    /\ image_paths = <<>>
    /\ n_jobs = 1
    /\ target_annotation_name = "none"
    /\ mscoco_info_path = <<>>
    /\ mscoco_licenses_path = <<>>
    /\ pc = "idle"
    /\ chunks = <<>>
    /\ chunk_no = 0
    /\ categories_ = <<>>
    /\ coco_simple_categories = <<>>
    /\ mscoco_main_dict = <<>>
    /\ results = <<>>
    /\ written = <<>>
    /\ document = <<>>

InitNoCoco ==
    /\ mscoco_hard = FALSE
    /\ coco_categories = <<>>
    /\ coco_images = <<>>
    /\ coco_annotations = <<>>
    /\ InitNoBatch
    /\ to_converter = "none"

InitIdle ==
    /\ class_mapper = <<>>
    /\ image_id = 0
    /\ annotation = <<>>
    /\ kek_image = None
    /\ target = None
    /\ warnings = <<>>
    /\ InitNoCoco
    /\ source_annotation_name = "none"

\* the caller has chosen an image and the constructor call to make
InitBox ==
    /\ image \in Images
    /\ arg \in {Some(c) : c \in Calls}
    /\ kek_box = None
    /\ ret = None
    /\ error = None
    /\ InitIdle

Pending(fn) == IsNone(kek_box) /\ IsNone(error) /\ arg[1].fn = fn

\* KEKBox(*box)
NewKEKBox ==
    /\ Pending("KEKBox")
    /\ kek_box' = Some(KEKBox(arg[1].box.ints[1], arg[1].box.ints[2],
                            arg[1].box.ints[3], arg[1].box.ints[4]))
    /\ UNCHANGED <<image, arg, ret, error, convVars>>

FromVoc ==
    /\ Pending("from_voc")
    /\ kek_box' = Some(from_voc(arg[1].box.ints))
    /\ UNCHANGED <<image, arg, ret, error, convVars>>

FromCoco ==
    /\ Pending("from_coco")
    /\ kek_box' = Some(from_coco(arg[1].box.ints))
    /\ UNCHANGED <<image, arg, ret, error, convVars>>

\* the Darknet boxes from_darknet is called with: the caller's box, or the
\* box to_darknet_box has just returned (as floats, or joined into a str)
DarknetCalls ==
    (IF Pending("from_darknet") THEN {arg[1]} ELSE {})
    \cup (IF IsSome(ret) /\ ret[1].fn = "to_darknet_box" /\ arg[1].trips < MaxRoundTrips
          THEN { Call("from_darknet", FloatsArg(ret[1].val), kek_box, arg[1].trips + 1),
                 Call("from_darknet", StrArg(StrOfFloats(ret[1].val)), kek_box,
                      arg[1].trips + 1) }
          ELSE {})

FromDarknet ==
    \E call \in DarknetCalls :
        \E r \in {from_darknet(call.box, get_image_shape(image))} :
            /\ IF r.ok
               THEN kek_box' = Some(r.val) /\ error' = None
               ELSE kek_box' = None /\ error' = Some(r.err)
            /\ arg' = Some(call)
            /\ ret' = None
            /\ UNCHANGED <<image, convVars>>

ToDarknetBox ==
    /\ IsSome(kek_box)
    /\ ret' = Some(Result("to_darknet_box", to_darknet_box(kek_box[1], get_image_shape(image))))
    /\ UNCHANGED <<image, kek_box, arg, error, convVars>>

ToVocBox ==
    /\ IsSome(kek_box)
    /\ ret' = Some(Result("to_voc_box", to_voc_box(kek_box[1])))
    /\ UNCHANGED <<image, kek_box, arg, error, convVars>>

ToCocoBox ==
    /\ IsSome(kek_box)
    /\ ret' = Some(Result("to_coco_box", to_coco_box(kek_box[1])))
    /\ UNCHANGED <<image, kek_box, arg, error, convVars>>

NextBox ==
    \/ NewKEKBox
    \/ FromVoc
    \/ FromCoco
    \/ FromDarknet
    \/ ToDarknetBox
    \/ ToVocBox
    \/ ToCocoBox

SpecBox == InitBox /\ [][NextBox]_vars

-----------------------------------------------------------------------------
(* dict: insertion-ordered, a sequence of entries [key, value]; the values *)
(* carry their Python type.                                                 *)

\* a value is the pair of its type and its content
JNone == <<"None", <<>>>>
JStr(text) == <<"str", text>>
JInt(n) == <<"int", n>>
JDict(entries) == <<"dict", entries>>
JList(items) == <<"list", items>>
TypeOf(value) == value[1]
ValueOf(value) == value[2]

Entry(key, value) == [key |-> key, value |-> value]
Keys(d) == {d[i].key : i \in 1..Len(d)}
Get(d, key) == d[CHOOSE i \in 1..Len(d) : d[i].key = key].value

\* d[key] = value: a new key goes last, a known key keeps its place
SetItem(d, key, value) ==
    IF key \in Keys(d)
    THEN [i \in 1..Len(d) |-> IF d[i].key = key THEN Entry(key, value) ELSE d[i]]
    ELSE Append(d, Entry(key, value))

\* d.update(other)
RECURSIVE Update(_, _)
Update(d, other) ==
    IF other = <<>> THEN d
    ELSE Update(SetItem(d, Head(other).key, Head(other).value), Tail(other))

-----------------------------------------------------------------------------
(* KEKObject, KEKImage and the data every decoder attaches                  *)

KEKObject(class_id, class_name, box, object_additional_data) ==
    [class_id |-> class_id, class_name |-> class_name, kek_box |-> box,
     additional_data |-> object_additional_data]

KEKImage(id_, filename, image_shape, kek_objects, image_additional_data) ==
    [id_ |-> id_, filename |-> filename, shape |-> image_shape,
     kek_objects |-> kek_objects, additional_data |-> image_additional_data]

construct_additional_image_data(img) ==
    <<Entry("path", JStr(img.path)), Entry("folder", JStr(img.folder))>>

construct_additional_object_data(id) == <<Entry("image_id", JInt(id))>>

-----------------------------------------------------------------------------
(* Darknet adapter.  The label file is the sequence of its lines, as       *)
(* readlines() returns them (each with its end of line).                    *)

\* (mutant) the first character of the label is taken as the class id
class_id_first_char(darknet_label) == Prefix(darknet_label, 1)

\* the text darknet2kek takes as the class id of a label
class_id_text(darknet_label) == Prefix(darknet_label, Find(darknet_label, " "))

\* the text darknet2kek passes to from_darknet
box_text(darknet_label) == Suffix(darknet_label, Find(darknet_label, " ") + 1)

\* a variant that names an unmapped class by its id instead of raising
kek_object_of_label_default_name(darknet_label, image_shape, id, mapper) ==
    ByValue(LAMBDA box :
        ByValue(LAMBDA class_id :
            IF ~box.ok THEN Raise(box.err)
            ELSE IF ~class_id.ok THEN Raise("ValueError")
            ELSE Return(KEKObject(class_id.val,
                                  IF class_id.val \in DOMAIN mapper
                                  THEN mapper[class_id.val]
                                  ELSE StrInt(class_id.val),
                                  box.val, construct_additional_object_data(id))),
            ParseInt(class_id_text(darknet_label))),
        from_darknet(StrArg(box_text(darknet_label)), image_shape))

\* one turn of darknet2kek's loop: the KEKObject of a label, or the exception
kek_object_of_label(darknet_label, image_shape, id, mapper) ==
    ByValue(LAMBDA box :
        ByValue(LAMBDA class_id :
            IF ~box.ok THEN Raise(box.err)
            ELSE IF ~class_id.ok THEN Raise("ValueError")
            ELSE IF class_id.val \notin DOMAIN mapper THEN Raise("KeyError")
            ELSE Return(KEKObject(class_id.val, mapper[class_id.val], box.val,
                                  construct_additional_object_data(id))),
            ParseInt(class_id_text(darknet_label))),
        from_darknet(StrArg(box_text(darknet_label)), image_shape))

\* darknet2kek's loop: it stops at the first label that raises
kek_objects_of_labels(darknet_labels, image_shape, id, mapper) ==
    ByValue(LAMBDA turn :
        LET raising == {i \in 1..Len(turn) : ~turn[i].ok}
        IN  IF raising /= {}
            THEN Raise(turn[CHOOSE i \in raising : \A j \in raising : i <= j].err)
            ELSE Return([i \in 1..Len(turn) |-> turn[i].val]),
        [i \in 1..Len(darknet_labels) |->
            kek_object_of_label(darknet_labels[i], image_shape, id, mapper)])

darknet2kek(img, id, mapper, darknet_labels) ==
    LET filename == img.name
        image_shape == get_image_shape(img)
        image_additional_data == construct_additional_image_data(img)
    IN  ByValue(LAMBDA kek_objects :
                    IF ~kek_objects.ok THEN Raise(kek_objects.err)
                    ELSE Return(KEKImage(id, filename, image_shape, kek_objects.val,
                                         image_additional_data)),
                kek_objects_of_labels(darknet_labels, image_shape, id, mapper))

darknet_label_of(kek_object, image_shape) ==
    LET class_id == StrInt(kek_object.class_id)
        darknet_box == to_darknet_box(kek_object.kek_box, image_shape)
    IN  Join(<<class_id>> \o [k \in 1..4 |-> StrFloat(darknet_box[k])], " ") \o <<"\n">>

\* (mutant) the lines are written in the order of the class ids
kek2darknet_sorted_by_class(image_) ==
    LET objs == image_.kek_objects
        Before(i, j) == \/ objs[i].class_id < objs[j].class_id
                        \/ objs[i].class_id = objs[j].class_id /\ i < j
        Rank(i) == 1 + Cardinality({j \in 1..Len(objs) : Before(j, i)})
    IN  [r \in 1..Len(objs) |->
            darknet_label_of(objs[CHOOSE i \in 1..Len(objs) : Rank(i) = r], image_.shape)]

kek2darknet(image_) ==
    [i \in 1..Len(image_.kek_objects) |->
        darknet_label_of(image_.kek_objects[i], image_.shape)]

-----------------------------------------------------------------------------
(* Darknet level: a label file is decoded, and the KEKImage encoded again   *)

Car == <<"c", "a", "r">>
Person == <<"p", "e", "r", "s", "o", "n">>
Dog == <<"d", "o", "g">>

\* the caller's mappers from class id to class name
DarknetMappers == { (0 :> Car) @@ (1 :> Person) @@ (10 :> Dog), (0 :> Car) }

ImageIds == {0, 7}

Label(class_id, d) == StrInt(class_id) \o <<" ">> \o StrOfFloats(d) \o <<"\n">>

\* boxes inside the image: on whole pixels of every image, and between pixels
BoxOnPixels == <<Milli(350), Milli(350), Milli(300), Milli(300)>>
BoxTall == <<Milli(500), Milli(500), Milli(200), Milli(400)>>
BoxBetweenPixels == <<Milli(339), Milli(500), Milli(100), Milli(100)>>
\* a box that leaves the image on the right
BoxClamped == <<Milli(950), Milli(500), Milli(400), Milli(200)>>

WellFormedLabels ==
    { Label(0, BoxOnPixels), Label(1, BoxTall), Label(10, BoxBetweenPixels),
      Label(0, BoxClamped),
      \* the last line of a file without a final end of line
      StrInt(1) \o <<" ">> \o StrOfFloats(BoxOnPixels) }

MalformedLabels ==
    { <<"\n">>,
      <<"0", " ">> \o StrOfFloats(SubSeq(BoxTall, 1, 3)) \o <<"\n">>,
      <<"x", " ">> \o StrOfFloats(BoxTall) \o <<"\n">>,
      <<"0", " ", " ">> \o StrOfFloats(BoxTall) \o <<"\n">>,
      \* three numbers after a class id that the smaller mapper does not hold
      <<"1", " ">> \o StrOfFloats(SubSeq(BoxTall, 1, 3)) \o <<"\n">> }

DarknetLabels == WellFormedLabels \cup MalformedLabels

SeqsUpTo(S, n) == UNION { [1..k -> S] : k \in 0..n }

DarknetFiles == SeqsUpTo(DarknetLabels, MaxLines)

InitNoBox ==
    /\ kek_box = None
    /\ arg = None
    /\ ret = None

InitDarknet ==
    /\ image \in Images
    /\ image_id \in ImageIds
    /\ class_mapper \in DarknetMappers
    /\ annotation \in DarknetFiles
    /\ source_annotation_name = "darknet"
    /\ InitNoCoco
    /\ kek_image = None
    /\ target = None
    /\ error = None
    /\ warnings = <<>>
    /\ InitNoBox

Darknet2Kek ==
    /\ source_annotation_name = "darknet"
    /\ IsNone(kek_image)
    /\ IsNone(error)
    /\ \E r \in {darknet2kek(image, image_id, class_mapper, annotation)} :
           IF r.ok
           THEN kek_image' = Some(r.val) /\ error' = None
           ELSE kek_image' = None /\ error' = Some(r.err)
    /\ UNCHANGED <<image, boxVars, class_mapper, image_id, annotation, target,
                   warnings, runVars, to_converter>>

Kek2Darknet ==
    /\ IsSome(kek_image)
    /\ IsNone(target)
    /\ target' = Some(kek2darknet(kek_image[1]))
    /\ to_converter' = "kek2darknet"
    /\ UNCHANGED <<image, boxVars, class_mapper, image_id, annotation, kek_image,
                   error, warnings, runVars>>

NextDarknet ==
    \/ Darknet2Kek
    \/ Kek2Darknet

SpecDarknet == InitDarknet /\ [][NextDarknet]_vars

-----------------------------------------------------------------------------
(* PASCAL VOC adapter, decode.  An annotation is the root xml.etree        *)
(* Element of the parsed file: [tag, attrib, text, children]; text None is *)
(* the empty sequence (the parser never gives an empty str).               *)

Element(tag, attrib, text, children) ==
    [tag |-> tag, attrib |-> attrib, text |-> text, children |-> children]

\* Element.find(tag): the first child with the tag, or None
find(element, tag) ==
    LET found == {i \in 1..Len(element.children) : element.children[i].tag = tag}
    IN  IF found = {} THEN None
        ELSE Some(element.children[CHOOSE i \in found : \A j \in found : i <= j])

TEXT_TOKEN == "#text"

\* the keys of the children's dicts, in the order of their first occurrence
RECURSIVE FirstKeys(_)
FirstKeys(tags) ==
    IF tags = <<>> THEN <<>>
    ELSE ByValue(LAMBDA front :
                     IF \E i \in 1..Len(front) : front[i] = tags[Len(tags)] THEN front
                     ELSE Append(front, tags[Len(tags)]),
                 FirstKeys(SubSeq(tags, 1, Len(tags) - 1)))

\* the sub-sequence of the values whose index is in the set
RECURSIVE Pick(_, _)
Pick(values, indices) ==
    IF values = <<>> THEN <<>>
    ELSE ByValue(LAMBDA front : IF Len(values) \in indices
                                THEN Append(front, values[Len(values)]) ELSE front,
                 Pick(SubSeq(values, 1, Len(values) - 1), indices))

\* children_dict of the values of the children, then the dict comprehension
Collapse(tags, values) ==
    ByValue(LAMBDA keys :
                [k \in 1..Len(keys) |->
                    ByValue(LAMBDA same :
                                Entry(keys[k], IF Len(same) = 1 THEN same[1] ELSE JList(same)),
                            Pick(values, {i \in 1..Len(tags) : tags[i] = keys[k]}))],
            FirstKeys(tags))

\* the value _xml2dict gives under root.tag
RECURSIVE xml2value(_)
xml2value(root) ==
    ByValue(LAMBDA text :
        IF root.children /= <<>>
        THEN ByValue(LAMBDA children_dict :
                         IF text /= <<>>
                         THEN JDict(SetItem(children_dict, TEXT_TOKEN, JStr(text)))
                         ELSE JDict(children_dict),
                     Collapse([i \in 1..Len(root.children) |-> root.children[i].tag],
                              [i \in 1..Len(root.children) |-> xml2value(root.children[i])]))
        ELSE IF root.text /= <<>> THEN JStr(text)
        ELSE IF root.attrib /= <<>> THEN JDict(<<>>)
        ELSE JNone,
        Strip(root.text))

_xml2dict(root) == <<Entry(root.tag, xml2value(root))>>

\* "for element in elements: if element.tag not in main_tags:
\*      data.update(_xml2dict(element))"
RECURSIVE update_with_elements(_, _, _)
update_with_elements(data, elements, main_tags) ==
    IF elements = <<>> THEN data
    ELSE update_with_elements(
             IF Head(elements).tag \in main_tags THEN data
             ELSE Update(data, _xml2dict(Head(elements))),
             Tail(elements), main_tags)

CoordinateTags == <<"xmin", "ymin", "xmax", "ymax">>

\* (mutant) a coordinate tag that is missing, empty or not an integer counts 0
_get_kek_box_lenient(object_element) ==
    ByValue(LAMBDA bndbox :
        IF IsNone(bndbox) THEN Raise("ValueError")
        ELSE ByValue(LAMBDA c : Return(from_voc(c)),
                     [k \in 1..4 |->
                         ByValue(LAMBDA tag : IF IsNone(tag) THEN 0
                                              ELSE ParseInt(tag[1].text).val,
                                 find(bndbox[1], CoordinateTags[k]))]),
        find(object_element, "bndbox"))

_get_kek_box(object_element) ==
    ByValue(LAMBDA bndbox :
        IF IsNone(bndbox) THEN Raise("ValueError")
        ELSE ByValue(LAMBDA tags :
                 IF \E k \in 1..4 : IsNone(tags[k]) THEN Raise("ValueError")
                 ELSE IF \E k \in 1..4 : tags[k][1].text = <<>> THEN Raise("ValueError")
                 ELSE ByValue(LAMBDA c :
                          IF \E k \in 1..4 : ~c[k].ok THEN Raise("ValueError")
                          ELSE Return(from_voc(<<c[1].val, c[2].val, c[3].val, c[4].val>>)),
                          [k \in 1..4 |-> ParseInt(tags[k][1].text)]),
                 [k \in 1..4 |-> find(bndbox[1], CoordinateTags[k])]),
        find(object_element, "bndbox"))

_get_name(object_element) ==
    ByValue(LAMBDA name :
                IF IsNone(name) THEN Raise("ValueError")
                ELSE IF name[1].text = <<>> THEN Raise("ValueError")
                ELSE Return(name[1].text),
            find(object_element, "name"))

main_image_tags == {"filename", "size", "object"}
main_object_tags == {"name", "bndbox"}

\* pascalvoc2kek's turn for an <object>: the KEKObject, or the exception
kek_object_of_element(element, id, mapper) ==
    ByValue(LAMBDA class_name :
        IF ~class_name.ok THEN Raise(class_name.err)
        ELSE IF class_name.val \notin DOMAIN mapper THEN Raise("KeyError")
        ELSE ByValue(LAMBDA box :
                 IF ~box.ok THEN Raise(box.err)
                 ELSE Return(KEKObject(mapper[class_name.val], class_name.val, box.val,
                                       update_with_elements(
                                           construct_additional_object_data(id),
                                           element.children, main_object_tags))),
                 _get_kek_box(element)),
        _get_name(element))

\* the <object> children of the annotation, in document order
RECURSIVE object_elements(_)
object_elements(elements) ==
    IF elements = <<>> THEN <<>>
    ELSE IF Head(elements).tag = "object"
         THEN <<Head(elements)>> \o object_elements(Tail(elements))
         ELSE object_elements(Tail(elements))

\* pascalvoc2kek's loop over the objects: it stops at the first that raises
kek_objects_of_elements(elements, id, mapper) ==
    ByValue(LAMBDA turn :
        LET raising == {i \in 1..Len(turn) : ~turn[i].ok}
        IN  IF raising /= {}
            THEN Raise(turn[CHOOSE i \in raising : \A j \in raising : i <= j].err)
            ELSE Return([i \in 1..Len(turn) |-> turn[i].val]),
        ByValue(LAMBDA objects :
                    [i \in 1..Len(objects) |-> kek_object_of_element(objects[i], id, mapper)],
                object_elements(elements)))

\* int(size.find(tag).text): AttributeError, TypeError and ValueError are
\* all caught by pascalvoc2kek
size_of(size, tag) ==
    ByValue(LAMBDA side :
                IF IsNone(side) THEN [ok |-> FALSE, val |-> 0]
                ELSE IF side[1].text = <<>> THEN [ok |-> FALSE, val |-> 0]
                ELSE ParseInt(side[1].text),
            IF IsNone(size) THEN None ELSE find(size[1], tag))

\* the shape written in <size>, or the shape of the image file
image_shape_of(annotation_, img) ==
    ByValue(LAMBDA s :
                IF s[1].ok /\ s[2].ok /\ s[3].ok THEN <<s[1].val, s[2].val, s[3].val>>
                ELSE get_image_shape(img),
            ByValue(LAMBDA size : <<size_of(size, "width"), size_of(size, "height"),
                                    size_of(size, "depth")>>,
                    find(annotation_, "size")))

\* os.path.splitext(image.name)[0] + '.xml'
annotation_file_name(img) ==
    LET dots == {i \in 1..Len(img.name) : img.name[i] = "."}
        root == IF dots = {} THEN img.name
                ELSE SubSeq(img.name, 1, (CHOOSE i \in dots : \A j \in dots : j <= i) - 1)
    IN  root \o <<".", "x", "m", "l">>

\* the warnings pascalvoc2kek emits before it reads the objects
warn_filename_not_found(annotation_, img) ==
    IF IsNone(find(annotation_, "filename")) THEN <<annotation_file_name(img)>> ELSE <<>>

pascalvoc2kek(img, id, mapper, annotation_) ==
    LET filename == ByValue(LAMBDA f : IF IsNone(f) THEN img.name ELSE f[1].text,
                            find(annotation_, "filename"))
        image_shape == image_shape_of(annotation_, img)
        image_additional_data ==
            update_with_elements(construct_additional_image_data(img),
                                 annotation_.children, main_image_tags)
    IN  ByValue(LAMBDA kek_objects :
                    IF ~kek_objects.ok THEN Raise(kek_objects.err)
                    ELSE Return(KEKImage(id, filename, image_shape, kek_objects.val,
                                         image_additional_data)),
                kek_objects_of_elements(annotation_.children, id, mapper))

-----------------------------------------------------------------------------
(* PASCAL VOC level: an annotation is decoded, and the KEKImage encoded to  *)
(* Darknet.                                                                 *)

Leaf(tag, text) == Element(tag, <<>>, text, <<>>)
\* an element with children, written on several lines
Node(tag, children) == Element(tag, <<>>, <<"\n", " ">>, children)

Bndbox(xmin, ymin, xmax, ymax) ==
    Node("bndbox", <<Leaf("xmin", xmin), Leaf("ymin", ymin),
                     Leaf("xmax", xmax), Leaf("ymax", ymax)>>)

GoodBndbox == Bndbox(StrInt(1), StrInt(2), StrInt(3), StrInt(4))

WellFormedObjects ==
    { Node("object", <<Leaf("name", Car), Leaf("pose", <<"L">>), GoodBndbox>>),
      Node("object", <<Leaf("name", Person),
                       Bndbox(StrInt(0), StrInt(0), StrInt(10), <<" ">> \o StrInt(10)),
                       Leaf("difficult", StrInt(0))>>) }

\* objects of a class that only the larger mapper knows
DogObjects ==
    { Node("object", <<Leaf("name", Dog), GoodBndbox>>),
      Node("object", <<Leaf("name", Dog)>>) }

FaultyObjects ==
    { Node("object", <<GoodBndbox>>),
      Node("object", <<Leaf("name", <<>>), GoodBndbox>>),
      Node("object", <<Leaf("name", Car)>>),
      Node("object", <<Leaf("name", Car),
                       Node("bndbox", <<Leaf("xmin", StrInt(1)), Leaf("ymin", StrInt(2)),
                                        Leaf("ymax", StrInt(4))>>)>>),
      Node("object", <<Leaf("name", Car),
                       Bndbox(StrInt(1), <<>>, StrInt(3), StrInt(4))>>),
      Node("object", <<Leaf("name", Car),
                       Bndbox(<<"1", ".", "5">>, StrInt(2), StrInt(3), StrInt(4))>>) }

VocObjects == WellFormedObjects \cup DogObjects \cup FaultyObjects

Size(width, height, depth) ==
    Node("size", <<Leaf("width", width), Leaf("height", height), Leaf("depth", depth)>>)

\* the head of an annotation: with or without <filename>, with a <size>, a
\* <size> without text in <depth>, or none; always a <folder>
VocHeads ==
    { filename \o size \o <<Leaf("folder", <<"V", "O", "C">>)>> :
        filename \in { <<>>, <<Leaf("filename", <<"x", ".", "j", "p", "g">>)>> },
        size \in { <<>>, <<Size(StrInt(20), StrInt(10), StrInt(3))>>,
                   <<Size(StrInt(20), StrInt(10), <<>>)>> } }

PlainFiles ==
    { Element("annotation", <<>>, <<"\n">>, head \o objects) :
        head \in VocHeads, objects \in SeqsUpTo(VocObjects, MaxObjects) }

Part(name, box) == Node("part", <<Leaf("name", name), box>>)

\* objects with further children: two <part> elements, an element without
\* text, an element with an attribute
RichObjects ==
    { Node("object", <<Leaf("name", Person), GoodBndbox,
                       Part(<<"h", "e", "a", "d">>, GoodBndbox),
                       Part(<<"h", "a", "n", "d">>,
                            Bndbox(StrInt(2), StrInt(2), StrInt(3), StrInt(3)))>>),
      Node("object", <<Leaf("name", Car), GoodBndbox, Leaf("truncated", <<>>),
                       Element("actions", <<Entry("kind", <<"x">>)>>, <<"\n", " ">>,
                               <<Leaf("jumping", StrInt(0)),
                                 Leaf("jumping", StrInt(1))>>)>>) }

\* a head with further children: nested elements of the same tag, an element
\* without text, elements with attributes, two <note> elements
RichHead ==
    <<Leaf("filename", <<"x", ".", "j", "p", "g">>),
      Size(StrInt(20), StrInt(10), StrInt(3)),
      Leaf("folder", <<"V", "O", "C">>),
      \* text of its own before the first child
      Element("source", <<>>, <<"\n", "s", " ">>,
              <<Leaf("database", <<"A">>), Leaf("database", <<"B">>),
                Leaf("image", <<"f">>)>>),
      Leaf("segmented", <<>>),
      Element("owner", <<Entry("id", <<"1">>)>>, <<"m", "e">>, <<>>),
      Element("flag", <<Entry("on", <<"1">>)>>, <<>>, <<>>),
      Leaf("note", <<"a">>),
      Leaf("note", <<"b">>)>>

RichFiles ==
    { Element("annotation", <<>>, <<"\n">>, RichHead \o objects) :
        objects \in SeqsUpTo(RichObjects, MaxObjects) }

VocFiles == PlainFiles \cup RichFiles

\* the caller's mappers from class name to class id
VocMappers == { (Car :> 0) @@ (Person :> 1), (Car :> 0) @@ (Person :> 1) @@ (Dog :> 2) }

VocImages == {img \in Images : img.shape = <<10, 10, 3>>}

InitVoc ==
    /\ image \in VocImages
    /\ image_id \in ImageIds
    /\ class_mapper \in VocMappers
    /\ annotation \in VocFiles
    /\ source_annotation_name = "pascalvoc"
    /\ InitNoCoco
    /\ kek_image = None
    /\ target = None
    /\ error = None
    /\ warnings = <<>>
    /\ InitNoBox

Pascalvoc2Kek ==
    /\ source_annotation_name = "pascalvoc"
    /\ IsNone(kek_image)
    /\ IsNone(error)
    /\ \E r \in {pascalvoc2kek(image, image_id, class_mapper, annotation)} :
           IF r.ok
           THEN kek_image' = Some(r.val) /\ error' = None
           ELSE kek_image' = None /\ error' = Some(r.err)
    /\ warnings' = warnings \o warn_filename_not_found(annotation, image)
    /\ UNCHANGED <<image, boxVars, class_mapper, image_id, annotation, target,
                   runVars, to_converter>>

-----------------------------------------------------------------------------
(* PASCAL VOC encoding.  kek2pascalvoc builds an ElementTree element and    *)
(* returns its pretty-printed text; the model keeps the element.            *)

\* the keys that start with TEXT_MARK '#': '#text' is the only one a decoder
\* writes
StartsWithTextMark(key) == key = TEXT_TOKEN

\* ET.SubElement(root, tag) with the text and the children given
SubElement(root, tag, text, children) ==
    [root EXCEPT !.children = Append(@, Element(tag, <<>>, text, children))]

RECURSIVE append_data_from_dict_to_xml(_, _, _)
RECURSIVE append_items(_, _)
RECURSIVE append_each(_, _, _)

\* kek2pascalvoc.append_data_from_dict_to_xml: the root after the call; a
\* value that is neither str, dict nor list leaves it as it is
append_data_from_dict_to_xml(key, value, root) ==
    IF StartsWithTextMark(key) THEN [root EXCEPT !.text = ValueOf(value)]
    ELSE IF TypeOf(value) = "str" THEN SubElement(root, key, ValueOf(value), <<>>)
    ELSE IF TypeOf(value) = "dict"
    THEN \* sub_root, filled from the items of the dict
         ByValue(LAMBDA sub_root : SubElement(root, key, sub_root.text, sub_root.children),
                 append_items(ValueOf(value), Leaf(key, <<>>)))
    ELSE IF TypeOf(value) = "list" THEN append_each(key, ValueOf(value), root)
    ELSE root

\* "for k, v in items: append_data_from_dict_to_xml(k, v, root)"
append_items(items, root) ==
    IF items = <<>> THEN root
    ELSE append_items(Tail(items),
                      append_data_from_dict_to_xml(Head(items).key, Head(items).value,
                                                   root))

\* "for element in value: append_data_from_dict_to_xml(key, element, root)"
append_each(key, values, root) ==
    IF values = <<>> THEN root
    ELSE append_each(key, Tail(values),
                     append_data_from_dict_to_xml(key, Head(values), root))

\* <size> with str(dimension_value) for each dimension of the shape
size_element(shape) ==
    Element("size", <<>>, <<>>,
            <<Leaf("width", StrInt(shape[1])), Leaf("height", StrInt(shape[2])),
              Leaf("depth", StrInt(shape[3]))>>)

\* <bndbox> with str(coordinate) for each coordinate of to_voc_box()
bndbox_element(box) ==
    Element("bndbox", <<>>, <<>>,
            [k \in 1..4 |-> Leaf(CoordinateTags[k], StrInt(to_voc_box(box)[k]))])

\* <object>: name, bndbox, then the additional data of the object
object_element(kek_object) ==
    append_items(kek_object.additional_data,
                 Element("object", <<>>, <<>>,
                         <<Leaf("name", kek_object.class_name),
                           bndbox_element(kek_object.kek_box)>>))

\* <annotation>: filename, size, the additional data of the image, the objects
kek2pascalvoc(kek_image_) ==
    ByValue(LAMBDA annotation_ :
                [annotation_ EXCEPT
                    !.children = @ \o [i \in 1..Len(kek_image_.kek_objects) |->
                                          object_element(kek_image_.kek_objects[i])]],
            append_items(kek_image_.additional_data,
                         Element("annotation", <<>>, <<>>,
                                 <<Leaf("filename", kek_image_.filename),
                                   size_element(kek_image_.shape)>>)))

Kek2Pascalvoc ==
    /\ IsSome(kek_image)
    /\ IsNone(target)
    /\ target' = Some(kek2pascalvoc(kek_image[1]))
    /\ to_converter' = "kek2pascalvoc"
    /\ UNCHANGED <<image, boxVars, class_mapper, image_id, annotation, kek_image,
                   error, warnings, runVars>>

NextVoc ==
    \/ Pascalvoc2Kek
    \/ Kek2Darknet
    \/ Kek2Pascalvoc

SpecVoc == InitVoc /\ [][NextVoc]_vars

-----------------------------------------------------------------------------
(* MS COCO decoding.  A JSON object is a dict as above; the category table  *)
(* is a dict whose keys are the ids as the category file holds them, ints   *)
(* or strings.                                                              *)

JTuple(items) == <<"tuple", items>>

\* the entries of d whose key is not among keys, in d's order
Without(d, keys) == SelectSeq(d, LAMBDA e : e.key \notin keys)

\* {record[key]: record for record in records}
RECURSIVE IndexBy(_, _)
IndexBy(records, key) ==
    IF records = <<>> THEN <<>>
    ELSE SetItem(IndexBy(SubSeq(records, 1, Len(records) - 1), key),
                 Get(records[Len(records)], key), records[Len(records)])

\* int(value) of a JSON int or string
int_of(value) ==
    IF TypeOf(value) = "int" THEN [ok |-> TRUE, val |-> ValueOf(value)]
    ELSE IF TypeOf(value) = "str" THEN ParseInt(ValueOf(value))
    ELSE [ok |-> FALSE, val |-> 0]

\* (mutant) the category is looked up under the id as given only
category_of_direct(class_id, categories) ==
    IF class_id \in Keys(categories) THEN Return(Get(categories, class_id))
    ELSE Raise("KeyError")

\* coco_annotations2kek_objects: the category of an annotation's category_id
category_of(class_id, categories) ==
    IF class_id \in Keys(categories) THEN Return(Get(categories, class_id))
    ELSE ByValue(LAMBDA n :
                     IF ~n.ok THEN Raise("ValueError")
                     ELSE IF JInt(n.val) \in Keys(categories)
                     THEN Return(Get(categories, JInt(n.val)))
                     ELSE Raise("KeyError"),
                 int_of(class_id))

main_object_data_keys == {"category_id", "bbox"}
main_object_category_keys == {"name", "id"}

\* the additional data of an object: the image id, the annotation's other
\* keys, the category's other keys
coco_object_additional_data(annotation_, id, category) ==
    Update(Update(construct_additional_object_data(id),
                  Without(annotation_, main_object_data_keys)),
           Without(category, main_object_category_keys))

\* one turn of coco_annotations2kek_objects' loop
kek_object_of_annotation(annotation_, id, categories) ==
    IF "category_id" \notin Keys(annotation_) THEN Raise("KeyError")
    ELSE ByValue(LAMBDA category :
        ByValue(LAMBDA class_id :
            IF ~category.ok THEN Raise(category.err)
            ELSE IF ~class_id.ok THEN Raise("ValueError")
            ELSE IF "name" \notin Keys(category.val) THEN Raise("KeyError")
            ELSE IF "bbox" \notin Keys(annotation_) THEN Raise("KeyError")
            ELSE IF Len(ValueOf(Get(annotation_, "bbox"))) /= 4 THEN Raise("ValueError")
            ELSE Return(KEKObject(
                     class_id.val - 1,
                     ValueOf(Get(category.val, "name")),
                     from_coco([k \in 1..4 |->
                                   ValueOf(ValueOf(Get(annotation_, "bbox"))[k])]),
                     coco_object_additional_data(annotation_, id, category.val))),
            int_of(Get(annotation_, "category_id"))),
        category_of(Get(annotation_, "category_id"), categories))

\* coco_annotations2kek_objects: the loop stops at the first annotation that
\* raises
coco_annotations2kek_objects(id, annotations, categories) ==
    ByValue(LAMBDA turn :
        LET raising == {i \in 1..Len(turn) : ~turn[i].ok}
        IN  IF raising /= {}
            THEN Raise(turn[CHOOSE i \in raising : \A j \in raising : i <= j].err)
            ELSE Return([i \in 1..Len(turn) |-> turn[i].val]),
        [i \in 1..Len(annotations) |->
            kek_object_of_annotation(annotations[i], id, categories)])

main_image_data_keys == {"id", "file_name", "width", "height"}

\* the file name of the image record, or the name of the image file
coco_filename(image_dict, img) ==
    IF "file_name" \in Keys(image_dict) THEN ValueOf(Get(image_dict, "file_name"))
    ELSE img.name

\* (mutant) without width or height only the depth is probed
coco_image_shape_depth_only(image_dict, img) ==
    IF {"width", "height"} \subseteq Keys(image_dict)
    THEN <<ValueOf(Get(image_dict, "width")), ValueOf(Get(image_dict, "height")),
           get_image_shape(img)[3]>>
    ELSE <<0, 0, get_image_shape(img)[3]>>

\* width and height of the image record with the probed depth, or the
\* probed shape
coco_image_shape(image_dict, img) ==
    IF {"width", "height"} \subseteq Keys(image_dict)
    THEN <<ValueOf(Get(image_dict, "width")), ValueOf(Get(image_dict, "height")),
           get_image_shape(img)[3]>>
    ELSE get_image_shape(img)

coco_image_additional_data(image_dict, img) ==
    Update(construct_additional_image_data(img),
           Without(image_dict, main_image_data_keys))

\* the image record, then the objects of its annotations
kek_image_of_record(img, image_dict, annotations, categories) ==
    IF "id" \notin Keys(image_dict) THEN Raise("KeyError")
    ELSE ByValue(LAMBDA kek_objects :
                     IF ~kek_objects.ok THEN Raise(kek_objects.err)
                     ELSE Return(KEKImage(ValueOf(Get(image_dict, "id")),
                                          coco_filename(image_dict, img),
                                          coco_image_shape(image_dict, img),
                                          kek_objects.val,
                                          coco_image_additional_data(image_dict, img))),
                 coco_annotations2kek_objects(ValueOf(Get(image_dict, "id")), annotations,
                                              categories))

\* labels: the JSON file of one image, {'image': ..., 'annotation': [...]}
mscoco_simple2kek(img, labels, categories) ==
    kek_image_of_record(img, labels.image, labels.annotation, categories)

\* construct_mscoco_dicts: coco_images
coco_images_of(coco_json) == IndexBy(coco_json.images, "file_name")

\* construct_mscoco_dicts: coco_annotations[image_id], a defaultdict(list)
coco_annotations_of(coco_json, id) ==
    SelectSeq(coco_json.annotations, LAMBDA a : Get(a, "image_id") = id)

\* construct_mscoco_dicts: coco_annotations, a defaultdict(list) filled in
\* the order of the file
RECURSIVE coco_annotations_by_image(_)
coco_annotations_by_image(annotations) ==
    IF annotations = <<>> THEN <<>>
    ELSE ByValue(LAMBDA d :
                     SetItem(d, Get(annotations[Len(annotations)], "image_id"),
                             Append(IF Get(annotations[Len(annotations)], "image_id")
                                          \in Keys(d)
                                    THEN Get(d, Get(annotations[Len(annotations)],
                                                    "image_id"))
                                    ELSE <<>>,
                                    annotations[Len(annotations)])),
                 coco_annotations_by_image(SubSeq(annotations, 1, Len(annotations) - 1)))

construct_mscoco_dicts(coco_json) ==
    [coco_images |-> coco_images_of(coco_json),
     coco_annotations |-> coco_annotations_by_image(coco_json.annotations),
     coco_categories |-> IndexBy(coco_json.categories, "id")]

\* the defaultdict after "coco_annotations[image_id]": a missing key is
\* inserted with an empty list
defaultdict_getitem(annotations_by_image, id) ==
    IF id \in Keys(annotations_by_image) THEN annotations_by_image
    ELSE Append(annotations_by_image, Entry(id, <<>>))

\* mscoco_hard2kek: coco_annotations after the call; the lookup is reached
\* when the image has a record with an id
coco_annotations_after(img, images_by_name, annotations_by_image) ==
    IF JStr(img.name) \notin Keys(images_by_name) THEN annotations_by_image
    ELSE IF "id" \notin Keys(Get(images_by_name, JStr(img.name)))
    THEN annotations_by_image
    ELSE defaultdict_getitem(annotations_by_image,
                             Get(Get(images_by_name, JStr(img.name)), "id"))

\* coco_json: the JSON file of all images
mscoco_hard2kek(img, coco_json, categories) ==
    IF JStr(img.name) \notin Keys(coco_images_of(coco_json)) THEN Raise("KeyError")
    ELSE ByValue(LAMBDA image_dict :
                     IF "id" \notin Keys(image_dict) THEN Raise("KeyError")
                     ELSE kek_image_of_record(
                              img, image_dict,
                              coco_annotations_of(coco_json, Get(image_dict, "id")),
                              categories),
                 Get(coco_images_of(coco_json), JStr(img.name)))

\* os.path.splitext(image_name)[0] + '.json'
json_file_name(img) ==
    LET dots == {i \in 1..Len(img.name) : img.name[i] = "."}
        root == IF dots = {} THEN img.name
                ELSE SubSeq(img.name, 1, (CHOOSE i \in dots : \A j \in dots : j <= i) - 1)
    IN  root \o <<".", "j", "s", "o", "n">>

\* the warnings mscoco_simple2kek emits
coco_warn_filename_not_found(image_dict, img) ==
    IF "id" \in Keys(image_dict) /\ "file_name" \notin Keys(image_dict)
    THEN <<json_file_name(img)>> ELSE <<>>

-----------------------------------------------------------------------------
(* MS COCO encoding.  Both encoders write into the additional data of the   *)
(* KEKImage and of its KEKObjects: the dicts they return are those dicts.   *)

\* kek2mscoco_simple: image_dict
image_dict_simple(kek_image_) ==
    Update(kek_image_.additional_data,
           <<Entry("file_name", JStr(kek_image_.filename)),
             Entry("width", JInt(kek_image_.shape[1])),
             Entry("height", JInt(kek_image_.shape[2])),
             Entry("id", JInt(kek_image_.id_))>>)

\* kek2mscoco_hard: image_dict
image_dict_hard(kek_image_) ==
    Update(kek_image_.additional_data,
           <<Entry("id", JInt(kek_image_.id_)),
             Entry("file_name", JStr(kek_image_.filename)),
             Entry("width", JInt(kek_image_.shape[1])),
             Entry("height", JInt(kek_image_.shape[2]))>>)

\* (mutant) the class id is written as the category id
ms_coco_metadata_zero_based(kek_object) ==
    Update(kek_object.additional_data,
           <<Entry("category_id", JInt(kek_object.class_id)),
             Entry("bbox", JTuple([k \in 1..4 |->
                                      JInt(to_coco_box(kek_object.kek_box)[k])]))>>)

\* the annotation of an object: its additional data with category_id and bbox
ms_coco_metadata(kek_object) ==
    Update(kek_object.additional_data,
           <<Entry("category_id", JInt(kek_object.class_id + 1)),
             Entry("bbox", JTuple([k \in 1..4 |->
                                      JInt(to_coco_box(kek_object.kek_box)[k])]))>>)

\* (mutant) the category always carries a supercategory
category_dict_with_supercategory(kek_object, id_key) ==
    <<Entry(id_key, JInt(kek_object.class_id + 1)),
      Entry("name", JStr(kek_object.class_name)),
      Entry("supercategory",
            IF "supercategory" \in Keys(kek_object.additional_data)
            THEN Get(kek_object.additional_data, "supercategory") ELSE JNone)>>

\* the category of an object; id_key is 'category_id' (simple) or 'id' (hard)
category_dict(kek_object, id_key) ==
    <<Entry(id_key, JInt(kek_object.class_id + 1)),
      Entry("name", JStr(kek_object.class_name))>>
    \o (IF "supercategory" \in Keys(kek_object.additional_data)
        THEN <<Entry("supercategory",
                     Get(kek_object.additional_data, "supercategory"))>>
        ELSE <<>>)

\* categories.update({category_id: category_dict}) for each object in turn
RECURSIVE categories_of(_, _)
categories_of(kek_objects, id_key) ==
    IF kek_objects = <<>> THEN <<>>
    ELSE SetItem(categories_of(SubSeq(kek_objects, 1, Len(kek_objects) - 1), id_key),
                 JInt(kek_objects[Len(kek_objects)].class_id + 1),
                 category_dict(kek_objects[Len(kek_objects)], id_key))

annotations_of(kek_objects) ==
    [i \in 1..Len(kek_objects) |-> ms_coco_metadata(kek_objects[i])]

kek2mscoco_simple(kek_image_) ==
    [json_file |-> [annotation |-> annotations_of(kek_image_.kek_objects),
                    image |-> image_dict_simple(kek_image_)],
     categories |-> categories_of(kek_image_.kek_objects, "category_id")]

kek2mscoco_hard(kek_format) ==
    [image_dict |-> image_dict_hard(kek_format),
     annotations |-> annotations_of(kek_format.kek_objects),
     categories |-> categories_of(kek_format.kek_objects, "id")]

\* the KEKImage after an encoder has written into its dicts
written_into(kek_image_, image_dict, annotations) ==
    [kek_image_ EXCEPT
        !.additional_data = image_dict,
        !.kek_objects = [i \in 1..Len(annotations) |->
                            [kek_image_.kek_objects[i] EXCEPT
                                !.additional_data = annotations[i]]]]

-----------------------------------------------------------------------------
(* MS COCO level: an image is decoded from the JSON file of the image       *)
(* (simple mode) or from the JSON file of all images (hard mode).           *)

\* a JSON file holds at most MaxAnnotations annotations
MaxAnnotations == 2

Vehicle == <<"v", "e", "h", "i", "c", "l", "e">>

CocoCategoryFiles ==
    { << <<Entry("supercategory", JStr(Vehicle)), Entry("id", JInt(1)),
           Entry("name", JStr(Car))>>,
         <<Entry("id", JInt(2)), Entry("name", JStr(Person))>> >>,
      \* a file that holds its ids as strings
      << <<Entry("supercategory", JStr(Vehicle)), Entry("id", JStr(<<"1">>)),
           Entry("name", JStr(Car))>>,
         <<Entry("id", JStr(<<"2">>)), Entry("name", JStr(Person))>> >> }

Annotation(id, image_id_, category_id, bbox) ==
    <<Entry("id", id), Entry("image_id", JInt(image_id_)),
      Entry("category_id", category_id),
      Entry("bbox", JList([k \in 1..4 |-> JInt(bbox[k])])),
      Entry("iscrowd", JInt(0))>>

CocoAnnotations(image_id_) ==
    { Annotation(JInt(11), image_id_, JInt(1), <<1, 2, 3, 4>>),
      Annotation(JInt(12), image_id_, JInt(2), <<0, 0, 10, 10>>),
      Annotation(JStr(<<"1", "3">>), image_id_, JStr(<<"1">>), <<2, 2, 5, 5>>),
      \* a category id that no category file holds
      Annotation(JInt(14), image_id_, JInt(3), <<1, 1, 1, 1>>) }

\* the image record of an image file; absent names the keys left out
ImageRecord(img, id, absent) ==
    Without(<<Entry("license", JInt(1)), Entry("file_name", JStr(img.name)),
              Entry("height", JInt(10)), Entry("width", JInt(20)),
              Entry("id", JInt(id))>>, absent)

CocoImages == {img \in Images : img.shape[1] <= 20}

CocoGaps == { {}, {"file_name"}, {"width"}, {"width", "height"} }

\* simple mode: the JSON files an image file can come with
CocoLabels(img) ==
    { [image |-> ImageRecord(img, 7, absent), annotation |-> annotations] :
        absent \in CocoGaps,
        annotations \in SeqsUpTo(CocoAnnotations(7), MaxAnnotations) }

\* hard mode: the JSON files of the images a.jpg (id 7) and b.jpg (id 8)
CocoJsons ==
    { [images |-> <<ImageRecord(CHOOSE i \in Images : i.shape = <<10, 10, 3>>, 7, absent),
                    ImageRecord(CHOOSE i \in Images : i.shape = <<20, 10, 3>>, 8, {})>>,
       annotations |-> annotations,
       categories |-> categories] :
        absent \in {{}, {"width", "height"}},
        annotations \in SeqsUpTo(CocoAnnotations(7) \cup CocoAnnotations(8),
                                 MaxAnnotations),
        categories \in CocoCategoryFiles }

InitCocoSimple ==
    /\ image \in CocoImages
    /\ annotation \in CocoLabels(image)
    /\ mscoco_hard = FALSE
    /\ coco_categories \in {IndexBy(file, "id") : file \in CocoCategoryFiles}
    /\ coco_images = <<>>
    /\ coco_annotations = <<>>

InitCocoHard ==
    /\ image \in Images
    /\ annotation \in CocoJsons
    /\ mscoco_hard = TRUE
    /\ coco_categories = construct_mscoco_dicts(annotation).coco_categories
    /\ coco_images = construct_mscoco_dicts(annotation).coco_images
    /\ coco_annotations = construct_mscoco_dicts(annotation).coco_annotations

InitCoco ==
    /\ InitCocoSimple \/ InitCocoHard
    /\ InitNoBatch
    /\ source_annotation_name = "mscoco"
    /\ to_converter = "none"
    /\ image_id = 0
    /\ class_mapper = <<>>
    /\ kek_image = None
    /\ target = None
    /\ error = None
    /\ warnings = <<>>
    /\ InitNoBox

\* mscoco2kek
Mscoco2Kek ==
    /\ source_annotation_name = "mscoco"
    /\ IsNone(kek_image)
    /\ IsNone(error)
    /\ \E r \in {IF mscoco_hard
                 THEN mscoco_hard2kek(image, annotation, coco_categories)
                 ELSE mscoco_simple2kek(image, annotation, coco_categories)} :
           IF r.ok
           THEN kek_image' = Some(r.val) /\ error' = None
           ELSE kek_image' = None /\ error' = Some(r.err)
    /\ warnings' = IF mscoco_hard THEN warnings
                   ELSE warnings \o coco_warn_filename_not_found(annotation.image, image)
    /\ coco_annotations' = IF mscoco_hard
                           THEN coco_annotations_after(image, coco_images,
                                                       coco_annotations)
                           ELSE coco_annotations
    /\ UNCHANGED <<image, boxVars, class_mapper, image_id, annotation, target,
                   source_annotation_name, mscoco_hard, coco_categories,
                   coco_images, to_converter, batchVars>>

\* kek2mscoco(kek_format, hard=False)
Kek2MscocoSimple ==
    /\ IsSome(kek_image)
    /\ IsNone(target)
    /\ \E r \in {kek2mscoco_simple(kek_image[1])} :
           /\ target' = Some(r)
           /\ kek_image' = Some(written_into(kek_image[1], r.json_file.image,
                                             r.json_file.annotation))
    /\ to_converter' = "kek2mscoco_simple"
    /\ UNCHANGED <<image, boxVars, class_mapper, image_id, annotation, error,
                   warnings, runVars>>

\* kek2mscoco(kek_format, hard=True)
Kek2MscocoHard ==
    /\ IsSome(kek_image)
    /\ IsNone(target)
    /\ \E r \in {kek2mscoco_hard(kek_image[1])} :
           /\ target' = Some(r)
           /\ kek_image' = Some(written_into(kek_image[1], r.image_dict, r.annotations))
    /\ to_converter' = "kek2mscoco_hard"
    /\ UNCHANGED <<image, boxVars, class_mapper, image_id, annotation, error,
                   warnings, runVars>>

NextCoco ==
    \/ Mscoco2Kek
    \/ Kek2MscocoSimple
    \/ Kek2MscocoHard

SpecCoco == InitCoco /\ [][NextCoco]_vars

-----------------------------------------------------------------------------
(* conversion_loop for one image: a decoder chosen by the source format,    *)
(* then an encoder.                                                         *)

InitConvert ==
    \/ InitDarknet
    \/ InitVoc
    \/ InitCoco

NextConvert ==
    \/ Darknet2Kek
    \/ Pascalvoc2Kek
    \/ Mscoco2Kek
    \/ Kek2Darknet
    \/ Kek2Pascalvoc
    \/ Kek2MscocoSimple
    \/ Kek2MscocoHard

SpecConvert == InitConvert /\ [][NextConvert]_vars

-----------------------------------------------------------------------------
(* Box level: what the claims speak about.                                 *)

Constructed(fn) == IsSome(arg) /\ arg[1].fn = fn /\ IsSome(kek_box)
Returned(fn) == IsSome(ret) /\ ret[1].fn = fn
Shape == get_image_shape(image)

\* the four numbers of a Darknet box argument
DarknetValues(box) ==
    IF box.is_str
    THEN [i \in 1..4 |-> ParseDecimal(Split(box.text, " ")[i]).val]
    ELSE box.floats

\* a Darknet number in thousandths (no number of the model has more places)
Thousandths(d) == CoefAt(d, 3)

\* twice the exact corner products, in thousandths of a pixel:
\* 2000 * (center -/+ size / 2) * side
LowProduct(center, size, side) == (2 * Thousandths(center) - Thousandths(size)) * side
HighProduct(center, size, side) == (2 * Thousandths(center) + Thousandths(size)) * side

\* t is the truncation toward zero of p / 2000
IsTruncation(t, p) ==
    IF p >= 0 THEN 2000 * t <= p /\ p < 2000 * (t + 1)
    ELSE 2000 * (t - 1) < p /\ p <= 2000 * t

\* from_darknet replaced a coordinate of the box d by 0 or by the image side
Clamped(d, shape) ==
    \/ LowProduct(d[1], d[3], shape[1]) <= -2000
    \/ LowProduct(d[2], d[4], shape[2]) <= -2000
    \/ HighProduct(d[1], d[3], shape[1]) >= 2000 * (shape[1] + 1)
    \/ HighProduct(d[2], d[4], shape[2]) >= 2000 * (shape[2] + 1)

\* |a - b| <= 0.01
Within001(a, b) == DecLeq(DecAbs(DecSub(a, b)), Dec(1, 2))

InBounds(box, shape) ==
    /\ 0 <= box.top_left_x /\ box.top_left_x <= box.bottom_right_x
    /\ box.bottom_right_x <= shape[1]
    /\ 0 <= box.top_left_y /\ box.top_left_y <= box.bottom_right_y
    /\ box.bottom_right_y <= shape[2]

\* C1: to_darknet_box returns center = ((top_left + bottom_right) / 2) / side
\* and size = (bottom_right - top_left) / side on both axes, so that a
\* normalized box whose corners fall on whole pixels inside the image comes
\* back unchanged from from_darknet followed by to_darknet_box.
C1_ToDarknetInvertsFromDarknet ==
    Returned("to_darknet_box") =>
        LET b == kek_box[1]
            d == ret[1].val
        IN  /\ DecMul(d[1], DecOfInt(2 * Shape[1])) = DecOfInt(b.top_left_x + b.bottom_right_x)
            /\ DecMul(d[2], DecOfInt(2 * Shape[2])) = DecOfInt(b.top_left_y + b.bottom_right_y)
            /\ DecMul(d[3], DecOfInt(Shape[1])) = DecOfInt(b.bottom_right_x - b.top_left_x)
            /\ DecMul(d[4], DecOfInt(Shape[2])) = DecOfInt(b.bottom_right_y - b.top_left_y)
            /\ (Constructed("from_darknet")
                    /\ LowProduct(DarknetValues(arg[1].box)[1], DarknetValues(arg[1].box)[3], Shape[1]) % 2000 = 0
                    /\ HighProduct(DarknetValues(arg[1].box)[1], DarknetValues(arg[1].box)[3], Shape[1]) % 2000 = 0
                    /\ LowProduct(DarknetValues(arg[1].box)[2], DarknetValues(arg[1].box)[4], Shape[2]) % 2000 = 0
                    /\ HighProduct(DarknetValues(arg[1].box)[2], DarknetValues(arg[1].box)[4], Shape[2]) % 2000 = 0
                    /\ ~Clamped(DarknetValues(arg[1].box), Shape)
                => d = DarknetValues(arg[1].box))

\* C2: d = B.to_darknet_box(S) for a box B inside the image; when
\* from_darknet(d, S) clamps nothing, from_darknet(d, S).to_darknet_box(S) is
\* within 0.01 of d in each component.
C2_DarknetBoxRoundTrip ==
    (/\ Constructed("from_darknet") /\ IsSome(arg[1].src)
     /\ InBounds(arg[1].src[1], Shape)
     /\ ~Clamped(DarknetValues(arg[1].box), Shape)
     /\ Returned("to_darknet_box"))
    => \A i \in 1..4 : Within001(ret[1].val[i], DarknetValues(arg[1].box)[i])

\* C3: from_darknet truncates each exact corner product toward zero, then
\* replaces a negative top-left coordinate by 0 and a bottom-right coordinate
\* beyond the image side by the side; center - size/2 < 0 gives top_left = 0
\* and center + size/2 > 1 gives bottom_right = the image side.
CornerIsClampedTruncation(low, t, p, side) ==
    \E raw \in {t, p \div 2000, -((-p) \div 2000)} :
        /\ IsTruncation(raw, p)
        /\ t = IF low THEN (IF raw < 0 THEN 0 ELSE raw)
                      ELSE (IF raw > side THEN side ELSE raw)

C3_FromDarknetTruncatesAndClamps ==
    Constructed("from_darknet") =>
        LET d == DarknetValues(arg[1].box)
            b == kek_box[1]
        IN  /\ CornerIsClampedTruncation(TRUE, b.top_left_x, LowProduct(d[1], d[3], Shape[1]), Shape[1])
            /\ CornerIsClampedTruncation(TRUE, b.top_left_y, LowProduct(d[2], d[4], Shape[2]), Shape[2])
            /\ CornerIsClampedTruncation(FALSE, b.bottom_right_x, HighProduct(d[1], d[3], Shape[1]), Shape[1])
            /\ CornerIsClampedTruncation(FALSE, b.bottom_right_y, HighProduct(d[2], d[4], Shape[2]), Shape[2])
            /\ (LowProduct(d[1], d[3], Shape[1]) < 0 => b.top_left_x = 0)
            /\ (LowProduct(d[2], d[4], Shape[2]) < 0 => b.top_left_y = 0)
            /\ (HighProduct(d[1], d[3], Shape[1]) > 2000 * Shape[1] => b.bottom_right_x = Shape[1])
            /\ (HighProduct(d[2], d[4], Shape[2]) > 2000 * Shape[2] => b.bottom_right_y = Shape[2])

\* a truncation that differs from rounding was made, a top-left coordinate
\* was clamped to 0 and a bottom-right one to the image side
C3_Witness ==
    /\ Constructed("from_darknet")
    /\ LowProduct(DarknetValues(arg[1].box)[1], DarknetValues(arg[1].box)[3], Shape[1]) <= -2000
    /\ HighProduct(DarknetValues(arg[1].box)[2], DarknetValues(arg[1].box)[4], Shape[2])
            >= 2000 * (Shape[2] + 1)
    /\ HighProduct(DarknetValues(arg[1].box)[1], DarknetValues(arg[1].box)[3], Shape[1]) % 2000 >= 1000
    /\ kek_box[1].top_left_x = 0
    /\ kek_box[1].bottom_right_y = Shape[2]

\* C4 as stated: for any normalized box with non-negative width and height,
\* whatever its center, the box from_darknet returns is well-ordered and
\* inside the image.
C4_BoxInsideImageForAnyCenter ==
    (/\ Constructed("from_darknet")
     /\ DarknetValues(arg[1].box)[3].c >= 0
     /\ DarknetValues(arg[1].box)[4].c >= 0)
    => InBounds(kek_box[1], Shape)

\* C4 amended: on each axis where the size is non-negative and the center
\* lies in [0, 1], 0 <= top_left <= bottom_right <= image side.
CenterInside(center) == center.c >= 0 /\ DecLeq(center, Dec(1, 0))

C4_BoxInsideImageForCenterInside ==
    Constructed("from_darknet") =>
        LET d == DarknetValues(arg[1].box)
            b == kek_box[1]
        IN  /\ (d[3].c >= 0 /\ CenterInside(d[1])
                => /\ 0 <= b.top_left_x /\ b.top_left_x <= b.bottom_right_x
                   /\ b.bottom_right_x <= Shape[1])
            /\ (d[4].c >= 0 /\ CenterInside(d[2])
                => /\ 0 <= b.top_left_y /\ b.top_left_y <= b.bottom_right_y
                   /\ b.bottom_right_y <= Shape[2])

\* a box with its center inside the image that overshoots the right edge and
\* undershoots the top edge has been converted
C4_Witness ==
    /\ Constructed("from_darknet")
    /\ DarknetValues(arg[1].box)[3].c >= 0 /\ CenterInside(DarknetValues(arg[1].box)[1])
    /\ DarknetValues(arg[1].box)[4].c >= 0 /\ CenterInside(DarknetValues(arg[1].box)[2])
    /\ HighProduct(DarknetValues(arg[1].box)[1], DarknetValues(arg[1].box)[3], Shape[1])
            >= 2000 * (Shape[1] + 1)
    /\ LowProduct(DarknetValues(arg[1].box)[2], DarknetValues(arg[1].box)[4], Shape[2]) <= -2000

\* C5: from_coco((x, y, w, h)) is Box(x, y, x + w, y + h), to_coco_box is
\* (top_left_x, top_left_y, bottom_right_x - top_left_x, bottom_right_y -
\* top_left_y), from_coco(t).to_coco_box() = t, and the VOC box
\* (50, 50, 300, 300) converts to the COCO box (50, 50, 250, 250).
C5_CocoBoxRoundTrip ==
    /\ Constructed("from_coco") =>
        LET t == arg[1].box.ints
        IN  kek_box[1] = KEKBox(t[1], t[2], t[1] + t[3], t[2] + t[4])
    /\ Returned("to_coco_box") =>
        LET b == kek_box[1]
        IN  ret[1].val = <<b.top_left_x, b.top_left_y, b.bottom_right_x - b.top_left_x,
                           b.bottom_right_y - b.top_left_y>>
    /\ Constructed("from_coco") /\ Returned("to_coco_box") => ret[1].val = arg[1].box.ints
    /\ (Constructed("from_voc") /\ arg[1].box.ints = PASCAL_VOC_BOX /\ Returned("to_coco_box"))
        => ret[1].val = MS_COCO_BOX

\* the COCO box of the unit test has gone through from_coco and to_coco_box
C5_Witness ==
    /\ Constructed("from_coco") /\ arg[1].box.ints = MS_COCO_BOX
    /\ Returned("to_coco_box") /\ ret[1].val[3] > 0 /\ ret[1].val[4] > 0

\* C6: the Box built from a 4-tuple of ints (x1, y1, x2, y2) stores exactly
\* those coordinates, and from_voc(t).to_voc_box() = t.
C6_VocBoxIdentity ==
    /\ Constructed("KEKBox") \/ Constructed("from_voc") =>
        LET t == arg[1].box.ints
            b == kek_box[1]
        IN  /\ b.top_left_x = t[1] /\ b.top_left_y = t[2]
            /\ b.bottom_right_x = t[3] /\ b.bottom_right_y = t[4]
    /\ Constructed("from_voc") /\ Returned("to_voc_box") => ret[1].val = arg[1].box.ints

\* an ordered VOC box with four different coordinates has made the round trip
C6_Witness ==
    /\ Constructed("from_voc") /\ Returned("to_voc_box")
    /\ arg[1].box.ints[1] < arg[1].box.ints[2]
    /\ arg[1].box.ints[2] < arg[1].box.ints[3]
    /\ arg[1].box.ints[3] < arg[1].box.ints[4]

-----------------------------------------------------------------------------
(* Darknet level: what the claims speak about.                             *)

Objects == kek_image[1].kek_objects

\* a label "<class id> <cx> <cy> <w> <h>" as the file holds it
LabelPieces(line) == Split(line, " ")
WellFormedLabel(line) ==
    /\ Len(LabelPieces(line)) = 5
    /\ ParseInt(LabelPieces(line)[1]).ok
    /\ \A k \in 2..5 : ParseDecimal(LabelPieces(line)[k]).ok
LabelClass(line) == ParseInt(LabelPieces(line)[1]).val
LabelValues(line) == [k \in 1..4 |-> ParseDecimal(LabelPieces(line)[k + 1]).val]

InUnit(d) == DecLeq(Dec(0, 0), d) /\ DecLeq(d, Dec(1, 0))

\* the label's box lies inside the image and from_darknet clamps nothing
InsideImage(line, shape) ==
    /\ WellFormedLabel(line)
    /\ \A k \in 1..4 : InUnit(LabelValues(line)[k])
    /\ ~Clamped(LabelValues(line), shape)

\* the encoded line has the class id of the source line and four fractions
\* within 0.01 of the source's
SameLabelWithin001(out, line) ==
    /\ WellFormedLabel(out)
    /\ LabelClass(out) = LabelClass(line)
    /\ \A k \in 1..4 : Within001(LabelValues(out)[k], LabelValues(line)[k])

RoundTripWithin001 ==
    /\ Len(target[1]) = Len(annotation)
    /\ \A i \in 1..Len(annotation) : SameLabelWithin001(target[1][i], annotation[i])

\* two pixels are at most 0.01 of the side (the side is at least 200 px)
TwoPixelsWithin001(side) == DecLeq(DecDiv(Dec(2, 0), DecOfInt(side)), Dec(1, 2))

ObjectOfLine(obj, line) ==
    \E k \in 1..Len(line) :
        /\ line[k] = " "
        /\ \A j \in 1..(k - 1) : line[j] /= " "
        /\ ParseInt(SubSeq(line, 1, k - 1)) = [ok |-> TRUE, val |-> obj.class_id]
        /\ LET box == from_darknet(StrArg(SubSeq(line, k + 1, Len(line))), Shape)
           IN  box.ok /\ box.val = obj.kek_box
        /\ obj.class_id \in DOMAIN class_mapper
        /\ obj.class_name = class_mapper[obj.class_id]

\* C8: Darknet decode builds one KEKObject per line of the label file, in
\* file order (class id = text before the first space, box = from_darknet of
\* the rest, class name = the mapper's entry); it raises only if some line is
\* malformed or its id is not in the mapper, and a file with no lines gives
\* a KEKImage without objects and no error.
C8_DarknetDecodeOneObjectPerLine ==
    /\ IsSome(kek_image) =>
          /\ Len(Objects) = Len(annotation)
          /\ \A i \in 1..Len(annotation) : ObjectOfLine(Objects[i], annotation[i])
    /\ IsSome(error) =>
          \E i \in 1..Len(annotation) :
              ~(WellFormedLabel(annotation[i])
                /\ LabelClass(annotation[i]) \in DOMAIN class_mapper)
    /\ (annotation = <<>> /\ IsSome(kek_image)) => Objects = <<>>

\* C8 witness: two lines with different class ids, one of two digits, have
\* been decoded
C8_Witness ==
    /\ IsSome(kek_image)
    /\ Len(Objects) = MaxLines
    /\ Objects[1].class_id > 9
    /\ Objects[2].class_id = 0

\* C8 witness: the file without lines has been decoded
C8_WitnessEmptyFile == annotation = <<>> /\ IsSome(kek_image) /\ IsNone(error)

\* C9: Darknet encode gives one line "<class_id> <cx> <cy> <w> <h>\n" per
\* KEKObject, the i-th line made of the i-th object's class id and of its
\* box's to_darknet_box values for the image shape.
C9_DarknetEncodeOneLinePerObject ==
    IsSome(target) =>
        /\ Len(target[1]) = Len(Objects)
        /\ \A i \in 1..Len(Objects) :
              LET d == to_darknet_box(Objects[i].kek_box, kek_image[1].shape)
              IN  target[1][i] =
                      StrInt(Objects[i].class_id) \o <<" ">> \o StrFloat(d[1])
                      \o <<" ">> \o StrFloat(d[2]) \o <<" ">> \o StrFloat(d[3])
                      \o <<" ">> \o StrFloat(d[4]) \o <<"\n">>

\* C9 witness: an image of two objects, the first with the greater class id,
\* has been encoded
C9_Witness ==
    /\ IsSome(target)
    /\ Len(target[1]) = MaxLines
    /\ Objects[1].class_id > Objects[2].class_id
    /\ target[1][1] /= target[1][2]

-----------------------------------------------------------------------------
(* PASCAL VOC level: what the claims speak about.                          *)

\* the decoder has returned or raised
Decoded == IsSome(kek_image) \/ IsSome(error)

ObjectElements == object_elements(annotation.children)

\* no <name> tag, or an empty one
NameFault(o) == IsNone(find(o, "name")) \/ find(o, "name")[1].text = <<>>

\* a missing, empty or non-integer coordinate tag
CoordinateFault(bndbox, tag) ==
    \/ IsNone(find(bndbox, tag))
    \/ find(bndbox, tag)[1].text = <<>>
    \/ ~ParseInt(find(bndbox, tag)[1].text).ok

\* no <bndbox> tag, or one with a faulty coordinate
BndboxFault(o) ==
    \/ IsNone(find(o, "bndbox"))
    \/ \E k \in 1..4 : CoordinateFault(find(o, "bndbox")[1], CoordinateTags[k])

Faulty(o) == NameFault(o) \/ BndboxFault(o)

\* the object has a class name and the class mapper has no entry for it
Unmapped(o) == ~NameFault(o) /\ find(o, "name")[1].text \notin DOMAIN class_mapper

\* the first object in document order that is faulty or unmapped
FirstStop ==
    CHOOSE i \in 1..Len(ObjectElements) :
        /\ Faulty(ObjectElements[i]) \/ Unmapped(ObjectElements[i])
        /\ \A j \in 1..(i - 1) : ~Faulty(ObjectElements[j]) /\ ~Unmapped(ObjectElements[j])

\* C10 (as stated): PASCAL VOC decode raises a ValueError and returns no
\* KEKImage whenever some <object> has no <name>, an empty <name>, no
\* <bndbox>, a missing coordinate tag, or an empty or non-integer coordinate.
C10_FaultyObjectRaisesValueError ==
    (Decoded /\ \E i \in 1..Len(ObjectElements) : Faulty(ObjectElements[i]))
        => (error = Some("ValueError") /\ IsNone(kek_image))

\* C10 (amended): with such an object in the annotation, decode returns no
\* KEKImage and raises at the first object that is faulty or whose class
\* name the mapper does not hold: a KeyError if that object has a class name
\* absent from the mapper (whatever its <bndbox>), a ValueError otherwise.
C10_FaultyObjectRaisesAtFirstStop ==
    (Decoded /\ \E i \in 1..Len(ObjectElements) : Faulty(ObjectElements[i]))
        => /\ IsNone(kek_image)
           /\ error = Some(IF Unmapped(ObjectElements[FirstStop])
                           THEN "KeyError" ELSE "ValueError")

\* C10 witness: decode has raised ValueError on an annotation whose first
\* object is well formed and whose second is faulty
C10_Witness ==
    /\ Decoded
    /\ Len(ObjectElements) = MaxObjects
    /\ ~Faulty(ObjectElements[1]) /\ ~Unmapped(ObjectElements[1])
    /\ Faulty(ObjectElements[MaxObjects])
    /\ error = Some("ValueError")
    /\ IsNone(kek_image)

-----------------------------------------------------------------------------
(* C11: a class the mapper does not hold                                    *)

FromDarknetSource == source_annotation_name = "darknet"
FromVocSource == source_annotation_name = "pascalvoc"

\* the label's class id is an integer that the class mapper does not hold
LineMiss(line) ==
    /\ ParseInt(class_id_text(line)).ok
    /\ ParseInt(class_id_text(line)).val \notin DOMAIN class_mapper

\* the first label in file order that is malformed or unmapped
FirstStopLine ==
    CHOOSE i \in 1..Len(annotation) :
        /\ ~WellFormedLabel(annotation[i]) \/ LineMiss(annotation[i])
        /\ \A j \in 1..(i - 1) :
               WellFormedLabel(annotation[j]) /\ ~LineMiss(annotation[j])

SomeLineMiss == FromDarknetSource /\ \E i \in 1..Len(annotation) : LineMiss(annotation[i])
SomeObjectMiss ==
    FromVocSource /\ \E i \in 1..Len(ObjectElements) : Unmapped(ObjectElements[i])

\* C11 (as stated): Darknet decode of a file with a line whose class id the
\* mapper does not hold, and PASCAL VOC decode of an annotation with an
\* object whose class name the mapper does not hold, raise KeyError and
\* return no KEKImage.
C11_LookupMissRaisesKeyError ==
    (Decoded /\ (SomeLineMiss \/ SomeObjectMiss))
        => (error = Some("KeyError") /\ IsNone(kek_image))

\* C11 (amended): with such a line or object, decode returns no KEKImage and
\* raises at the first line or object that is malformed or unmapped: a
\* KeyError if that line is well formed with an unmapped class id, or that
\* object has a class name absent from the mapper; the error of the
\* malformed line or object otherwise.
C11_LookupMissRaisesAtFirstStop ==
    /\ (Decoded /\ SomeLineMiss)
           => /\ IsNone(kek_image)
              /\ IF WellFormedLabel(annotation[FirstStopLine])
                 THEN error = Some("KeyError")
                 ELSE error \in {Some("ValueError"), Some("InvalidOperation")}
    /\ (Decoded /\ SomeObjectMiss)
           => /\ IsNone(kek_image)
              /\ error = Some(IF Unmapped(ObjectElements[FirstStop])
                              THEN "KeyError" ELSE "ValueError")

\* C11 witness: Darknet decode has raised KeyError on a file whose first
\* line is mapped and well formed and whose last line is well formed with a
\* class id the mapper does not hold
C11_Witness ==
    /\ Decoded
    /\ FromDarknetSource
    /\ Len(annotation) = MaxLines
    /\ WellFormedLabel(annotation[1]) /\ ~LineMiss(annotation[1])
    /\ WellFormedLabel(annotation[MaxLines]) /\ LineMiss(annotation[MaxLines])
    /\ error = Some("KeyError")
    /\ IsNone(kek_image)

\* C11 witness, PASCAL VOC: decode has raised KeyError at an object whose
\* class name the mapper does not hold
C11_WitnessVoc ==
    /\ Decoded
    /\ SomeObjectMiss
    /\ Unmapped(ObjectElements[FirstStop])
    /\ error = Some("KeyError")
    /\ IsNone(kek_image)

-----------------------------------------------------------------------------
(* MS COCO: what the claims speak about.                                    *)

FromCocoSource == source_annotation_name = "mscoco"

\* hard mode: the JSON file has a record for the image file
HasRecord == ~mscoco_hard \/ JStr(image.name) \in Keys(coco_images_of(annotation))

\* the image record and the annotations the decoder reads
SourceImageRecord ==
    IF mscoco_hard THEN Get(coco_images_of(annotation), JStr(image.name))
    ELSE annotation.image
SourceAnnotations ==
    IF mscoco_hard
    THEN SelectSeq(annotation.annotations,
                   LAMBDA a : Get(a, "image_id") = Get(SourceImageRecord, "id"))
    ELSE annotation.annotation

CocoDecoded == FromCocoSource /\ Decoded /\ HasRecord

\* the category id of an annotation as the file holds it, and as an integer
GivenId(a) == Get(a, "category_id")
CoercedId(a) ==
    IF TypeOf(GivenId(a)) = "int" THEN GivenId(a)
    ELSE JInt(ParseInt(ValueOf(GivenId(a))).val)

\* the category table holds the id as given or as its integer coercion
Held(a) ==
    \/ GivenId(a) \in Keys(coco_categories)
    \/ CoercedId(a) \in Keys(coco_categories)
MatchedRecord(a) ==
    IF GivenId(a) \in Keys(coco_categories) THEN Get(coco_categories, GivenId(a))
    ELSE Get(coco_categories, CoercedId(a))

\* C12: MS COCO decode looks the category of an annotation up under its
\* category_id as given, then under int(category_id).  When the table holds
\* one of the two for every annotation, each object is named after the
\* matched record; when it holds neither for some annotation, decode raises
\* KeyError; and it raises KeyError in no other case.
C12_CategoryLookupWithIntRetry ==
    CocoDecoded =>
        /\ (\A i \in 1..Len(SourceAnnotations) : Held(SourceAnnotations[i]))
              => /\ IsSome(kek_image)
                 /\ Len(Objects) = Len(SourceAnnotations)
                 /\ \A i \in 1..Len(Objects) :
                        Objects[i].class_name =
                            ValueOf(Get(MatchedRecord(SourceAnnotations[i]), "name"))
        /\ (\E i \in 1..Len(SourceAnnotations) : ~Held(SourceAnnotations[i]))
              <=> error = Some("KeyError")

\* C12 witness: an image has been decoded from an annotation whose
\* category_id is a string that the table holds as an integer only
C12_Witness ==
    /\ CocoDecoded
    /\ IsSome(kek_image)
    /\ \E i \in 1..Len(SourceAnnotations) :
           /\ GivenId(SourceAnnotations[i]) \notin Keys(coco_categories)
           /\ CoercedId(SourceAnnotations[i]) \in Keys(coco_categories)
           /\ Objects[i].class_name = Car

\* C12 witness, miss: decode has raised KeyError on a category id that the
\* table holds neither as given nor as an integer
C12_WitnessBothMiss ==
    /\ CocoDecoded
    /\ error = Some("KeyError")
    /\ \E i \in 1..Len(SourceAnnotations) : ~Held(SourceAnnotations[i])

-----------------------------------------------------------------------------
(* C13: gaps in the metadata of the image                                   *)

\* no <size>, or a <size> with a missing, empty or non-integer dimension
SizeFault ==
    \/ IsNone(find(annotation, "size"))
    \/ \E tag \in {"width", "height", "depth"} :
           CoordinateFault(find(annotation, "size")[1], tag)

\* PASCAL VOC decode of an annotation whose objects are all well formed and
\* mapped
VocObjectsDecodable ==
    /\ FromVocSource
    /\ Decoded
    /\ \A i \in 1..Len(ObjectElements) :
           ~Faulty(ObjectElements[i]) /\ ~Unmapped(ObjectElements[i])

\* MS COCO simple decode of a file whose annotations all have a category
CocoSimpleDecodable ==
    /\ FromCocoSource
    /\ ~mscoco_hard
    /\ Decoded
    /\ \A i \in 1..Len(annotation.annotation) : Held(annotation.annotation[i])

\* C13: a missing <filename> (PASCAL VOC) or file_name (MS COCO simple) gives
\* one warning and the name of the image file; a missing or malformed <size>
\* (PASCAL VOC) or a missing width or height (MS COCO simple) gives the
\* probed shape of the image file; a KEKImage is returned and nothing raised.
C13_MetadataGapsFallBack ==
    /\ VocObjectsDecodable
          => /\ IsSome(kek_image) /\ IsNone(error)
             /\ IsNone(find(annotation, "filename"))
                   => /\ kek_image[1].filename = image.name
                      /\ Len(warnings) = 1
             /\ SizeFault => kek_image[1].shape = image.shape
    /\ CocoSimpleDecodable
          => /\ IsSome(kek_image) /\ IsNone(error)
             /\ "file_name" \notin Keys(annotation.image)
                   => /\ kek_image[1].filename = image.name
                      /\ Len(warnings) = 1
             /\ ~({"width", "height"} \subseteq Keys(annotation.image))
                   => kek_image[1].shape = image.shape

\* C13 witness: a KEKImage has been decoded from a PASCAL VOC annotation
\* without <filename> and with a malformed <size>
C13_Witness ==
    /\ VocObjectsDecodable
    /\ Len(ObjectElements) > 0
    /\ IsNone(find(annotation, "filename"))
    /\ IsSome(find(annotation, "size")) /\ SizeFault
    /\ IsSome(kek_image)
    /\ kek_image[1].filename = image.name
    /\ kek_image[1].shape = image.shape
    /\ Len(warnings) = 1

\* C13 witness, MS COCO: a KEKImage has been decoded from an image record
\* without width whose height differs from the image file's
C13_WitnessCoco ==
    /\ CocoSimpleDecodable
    /\ Len(annotation.annotation) > 0
    /\ "width" \notin Keys(annotation.image)
    /\ IsSome(kek_image)
    /\ kek_image[1].shape = image.shape
    /\ kek_image[1].shape[1] /= 20

\* C13 witness, MS COCO: a KEKImage has been decoded from an image record
\* without file_name, with a warning
C13_WitnessCocoFilename ==
    /\ CocoSimpleDecodable
    /\ "file_name" \notin Keys(annotation.image)
    /\ IsSome(kek_image)
    /\ kek_image[1].filename = image.name
    /\ Len(warnings) = 1

-----------------------------------------------------------------------------
(* PASCAL VOC -> KEKImage -> PASCAL VOC                                     *)

\* every element of a tree, as the pair of its tag path and its text without
\* the surrounding whitespace
RECURSIVE ElementsOf(_, _)
ElementsOf(element, path) ==
    {<<Append(path, element.tag), Strip(element.text)>>}
    \cup UNION { ElementsOf(element.children[i], Append(path, element.tag)) :
                    i \in 1..Len(element.children) }

\* the objects decode and <size>, if there is one, holds three integers
WellFormedVoc ==
    /\ VocObjectsDecodable
    /\ IsNone(find(annotation, "size")) \/ ~SizeFault

EncodedToVoc == to_converter = "kek2pascalvoc" /\ IsSome(target)

\* C14 (as stated): every element of a well-formed source annotation, with
\* its tag path and its text, is an element of
\* kek2pascalvoc(pascalvoc2kek(annotation)).
C14_VocRoundTripKeepsEveryElement ==
    (WellFormedVoc /\ EncodedToVoc)
        => ElementsOf(annotation, <<>>) \subseteq ElementsOf(target[1], <<>>)

-----------------------------------------------------------------------------
(* C15, C16: what PASCAL VOC decode keeps of the other elements             *)

VocImageDecoded == FromVocSource /\ IsSome(kek_image)

\* the elements of a sequence that have the tag, in document order
WithTag(elements, tag) == SelectSeq(elements, LAMBDA e : e.tag = tag)

\* the folded value of the elements with the tag: the value of the only
\* one, or the list of the values of all of them in document order
FoldedSiblings(elements, tag) ==
    IF Len(WithTag(elements, tag)) = 1 THEN xml2value(WithTag(elements, tag)[1])
    ELSE JList([i \in 1..Len(WithTag(elements, tag)) |->
                   xml2value(WithTag(elements, tag)[i])])

\* data holds, under the tag of every element outside main_tags, the folded
\* value of the elements with that tag
KeepsEvery(data, elements, main_tags) ==
    \A i \in 1..Len(elements) :
        elements[i].tag \notin main_tags
            => /\ elements[i].tag \in Keys(data)
               /\ Get(data, elements[i].tag) = FoldedSiblings(elements, elements[i].tag)

\* C15 (as stated): the additional data of the KEKImage holds every child of
\* <annotation> other than filename, size and object, the additional data
\* of each KEKObject holds every child of its <object> other than name and
\* bndbox, and siblings of the same tag are held as the list of all of them
\* in document order.
C15_DecodeKeepsEveryExtraElement ==
    VocImageDecoded
        => /\ KeepsEvery(kek_image[1].additional_data, annotation.children,
                         main_image_tags)
           /\ \A k \in 1..Len(Objects) :
                  KeepsEvery(Objects[k].additional_data, ObjectElements[k].children,
                             main_object_tags)

\* the folded value is a dict that holds each attribute under its name, or
\* a dict with an entry that does
HoldsAttributes(value, attrib) ==
    /\ TypeOf(value) = "dict"
    /\ \/ \A a \in 1..Len(attrib) :
              /\ attrib[a].key \in Keys(ValueOf(value))
              /\ Get(ValueOf(value), attrib[a].key) = JStr(attrib[a].value)
       \/ \E e \in 1..Len(ValueOf(value)) :
              /\ TypeOf(ValueOf(value)[e].value) = "dict"
              /\ \A a \in 1..Len(attrib) :
                     /\ attrib[a].key \in Keys(ValueOf(ValueOf(value)[e].value))
                     /\ Get(ValueOf(ValueOf(value)[e].value), attrib[a].key)
                            = JStr(attrib[a].value)

\* every element outside main_tags that has attributes is folded into a
\* value that holds them
CapturesAttributes(elements, main_tags) ==
    \A i \in 1..Len(elements) :
        (elements[i].tag \notin main_tags /\ elements[i].attrib /= <<>>)
            => HoldsAttributes(xml2value(elements[i]), elements[i].attrib)

\* C16 (as stated): the entry _xml2dict makes of an element with attributes
\* holds a nested dict with each attribute name and its value, also when the
\* element has text or children.
C16_FoldedElementHoldsAttributes ==
    VocImageDecoded
        => /\ CapturesAttributes(annotation.children, main_image_tags)
           /\ \A k \in 1..Len(ObjectElements) :
                  CapturesAttributes(ObjectElements[k].children, main_object_tags)

-----------------------------------------------------------------------------
(* C17: what PASCAL VOC encode writes of the additional data                *)

\* the types of the scalar values: str, and the numbers of the model
ScalarTypes == {"str", "int"}

\* str(value) of a scalar value
ScalarText(value) == IF TypeOf(value) = "int" THEN StrInt(ValueOf(value)) ELSE ValueOf(value)

RECURSIVE RegeneratedAs(_, _)
RECURSIVE RegeneratedItems(_, _)

\* the element stands for the value: the text of a scalar, the items of a
\* dict
RegeneratedAs(value, element) ==
    IF TypeOf(value) \in ScalarTypes THEN element.text = ScalarText(value)
    ELSE IF TypeOf(value) = "dict" THEN RegeneratedItems(ValueOf(value), element)
    ELSE TRUE

\* the root holds every item: the text marker as its own text, a scalar or a
\* dict as a child with the key as tag, a list as one such child per item
RegeneratedItems(items, root) ==
    \A i \in 1..Len(items) :
        IF items[i].key = TEXT_TOKEN THEN root.text = ValueOf(items[i].value)
        ELSE IF TypeOf(items[i].value) = "list"
        THEN /\ Len(WithTag(root.children, items[i].key)) = Len(ValueOf(items[i].value))
             /\ \A n \in 1..Len(ValueOf(items[i].value)) :
                    RegeneratedAs(ValueOf(items[i].value)[n],
                                  WithTag(root.children, items[i].key)[n])
        ELSE IF TypeOf(items[i].value) \in ScalarTypes \cup {"dict"}
        THEN /\ Len(WithTag(root.children, items[i].key)) = 1
             /\ RegeneratedAs(items[i].value, WithTag(root.children, items[i].key)[1])
        ELSE TRUE

\* C17 (as stated): kek2pascalvoc writes every entry of the additional data
\* of the KEKImage below <annotation> and every entry of the additional
\* data of each KEKObject below its <object>: a dict as a child with nested
\* children, a list as one sibling per item, a str or a number as an element
\* with that text, and a '#' key as the text of the parent.
C17_VocEncodeRegeneratesEveryEntry ==
    EncodedToVoc
        => /\ RegeneratedItems(kek_image[1].additional_data, target[1])
           /\ \A k \in 1..Len(Objects) :
                  RegeneratedItems(Objects[k].additional_data,
                                   WithTag(target[1].children, "object")[k])

-----------------------------------------------------------------------------
(* C19, C20: category ids and the category map of MS COCO encode            *)

EncodedToCoco ==
    to_converter \in {"kek2mscoco_simple", "kek2mscoco_hard"} /\ IsSome(target)

\* the annotations and the category map the encoder has returned
TargetAnnotations ==
    IF to_converter = "kek2mscoco_simple" THEN target[1].json_file.annotation
    ELSE target[1].annotations
TargetCategories == target[1].categories

\* C19: MS COCO decode stores class_id = int(category_id) - 1; MS COCO
\* encode, in both modes, writes category_id = class_id + 1 and
\* bbox = to_coco_box() into the annotation of each object; so decode, then
\* encode, gives every annotation its category_id back as an integer, and
\* an object of class c from Darknet or PASCAL VOC gets category_id c + 1.
C19_CategoryIdsOneBasedInFile ==
    /\ (CocoDecoded /\ IsSome(kek_image))
          => /\ Len(Objects) = Len(SourceAnnotations)
             /\ \A i \in 1..Len(Objects) :
                    Objects[i].class_id = ValueOf(CoercedId(SourceAnnotations[i])) - 1
    /\ EncodedToCoco
          => /\ Len(TargetAnnotations) = Len(Objects)
             /\ \A i \in 1..Len(Objects) :
                    /\ Get(TargetAnnotations[i], "category_id")
                           = JInt(Objects[i].class_id + 1)
                    /\ Get(TargetAnnotations[i], "bbox")
                           = JTuple([k \in 1..4 |->
                                        JInt(to_coco_box(Objects[i].kek_box)[k])])
    /\ (CocoDecoded /\ EncodedToCoco)
          => \A i \in 1..Len(TargetAnnotations) :
                 Get(TargetAnnotations[i], "category_id")
                     = CoercedId(SourceAnnotations[i])

\* C19 witness: an annotation with the category id "1", a string, has been
\* decoded and encoded again with the category id 1
C19_Witness ==
    /\ CocoDecoded /\ EncodedToCoco
    /\ \E i \in 1..Len(TargetAnnotations) :
           /\ GivenId(SourceAnnotations[i]) = JStr(<<"1">>)
           /\ Objects[i].class_id = 0
           /\ Get(TargetAnnotations[i], "category_id") = JInt(1)

\* C19 witness, other sources: an object of class 1 decoded from Darknet and
\* one decoded from PASCAL VOC have been written with category id 2
C19_WitnessDarknet ==
    /\ FromDarknetSource /\ EncodedToCoco
    /\ \E i \in 1..Len(Objects) :
           /\ Objects[i].class_id = 1
           /\ Get(TargetAnnotations[i], "category_id") = JInt(2)
C19_WitnessVoc ==
    /\ FromVocSource /\ EncodedToCoco
    /\ \E i \in 1..Len(Objects) :
           /\ Objects[i].class_id = 1
           /\ Get(TargetAnnotations[i], "category_id") = JInt(2)

\* the key of the id in a category: 'category_id' (simple) or 'id' (hard)
CategoryIdKey == IF to_converter = "kek2mscoco_simple" THEN "category_id" ELSE "id"

\* the category ids of the objects, and the last object with a category id
CategoryIds == {Objects[i].class_id + 1 : i \in 1..Len(Objects)}
LastWith(id) ==
    Objects[CHOOSE i \in 1..Len(Objects) :
                /\ Objects[i].class_id + 1 = id
                /\ \A j \in (i + 1)..Len(Objects) : Objects[j].class_id + 1 /= id]

\* C20: the category map MS COCO encode returns for an image has exactly
\* one entry per category id (class_id + 1) of the objects of the image; the
\* entry holds the id under 'category_id' (simple) or 'id' (hard) and the
\* class name of the object, and 'supercategory' if and only if the
\* additional data of the object has it; without objects the map is empty.
C20_CategoryMapOfTheImage ==
    EncodedToCoco
        => /\ Keys(TargetCategories) = {JInt(id) : id \in CategoryIds}
           /\ Len(TargetCategories) = Cardinality(CategoryIds)
           /\ \A id \in CategoryIds :
                  /\ Get(Get(TargetCategories, JInt(id)), CategoryIdKey) = JInt(id)
                  /\ Get(Get(TargetCategories, JInt(id)), "name")
                         = JStr(LastWith(id).class_name)
                  /\ "supercategory" \in Keys(Get(TargetCategories, JInt(id)))
                         <=> "supercategory" \in Keys(LastWith(id).additional_data)
                  /\ Keys(Get(TargetCategories, JInt(id)))
                         \subseteq {CategoryIdKey, "name", "supercategory"}
           /\ Len(Objects) = 0 => TargetCategories = <<>>

\* C20 witness: two objects of different categories, one with a
\* supercategory and one without, have given a map of two entries
C20_Witness ==
    /\ EncodedToCoco
    /\ Len(TargetCategories) = 2
    /\ \E id \in CategoryIds : "supercategory" \in Keys(Get(TargetCategories, JInt(id)))
    /\ \E id \in CategoryIds : "supercategory" \notin Keys(Get(TargetCategories, JInt(id)))

\* C20 witness, one category: two objects of one category have given one
\* entry; and an image without objects has given none
C20_WitnessShared ==
    EncodedToCoco /\ Len(Objects) = 2 /\ Len(TargetCategories) = 1
C20_WitnessEmpty ==
    EncodedToCoco /\ FromCocoSource /\ Len(Objects) = 0 /\ TargetCategories = <<>>

-----------------------------------------------------------------------------
(* C18: MS COCO round trip                                                  *)

\* MS COCO decode, then MS COCO encode in the mode of the source
CocoRoundTrip ==
    /\ CocoDecoded /\ EncodedToCoco
    /\ mscoco_hard <=> to_converter = "kek2mscoco_hard"

TargetImageDict ==
    IF to_converter = "kek2mscoco_simple" THEN target[1].json_file.image
    ELSE target[1].image_dict

\* dst is the value src: the same value, the tuple of the items of a list,
\* or the integer that a string spells
SameValue(src, dst) ==
    IF TypeOf(dst) = "tuple" /\ TypeOf(src) = "list" THEN ValueOf(dst) = ValueOf(src)
    ELSE IF TypeOf(dst) = "int" /\ TypeOf(src) = "str" THEN StrInt(ValueOf(dst)) = ValueOf(src)
    ELSE dst = src

\* dst holds every key of src with the same value
Contains(dst, src) ==
    \A key \in Keys(src) : key \in Keys(dst) /\ SameValue(Get(src, key), Get(dst, key))

\* the re-encoded image dict holds the image record of the source
ImageRecordComesBack == Contains(TargetImageDict, SourceImageRecord)

\* every annotation of the source is held by the re-encoded annotation with
\* its id
AnnotationsComeBack ==
    \A i \in 1..Len(SourceAnnotations) :
        \E n \in 1..Len(TargetAnnotations) :
            /\ SameValue(Get(SourceAnnotations[i], "id"), Get(TargetAnnotations[n], "id"))
            /\ Contains(TargetAnnotations[n], SourceAnnotations[i])

\* every category record of the source is held by a record of the
\* re-encoded category map
CategoriesComeBack ==
    \A c \in 1..Len(coco_categories) :
        \E t \in 1..Len(TargetCategories) :
            Contains(TargetCategories[t].value, coco_categories[c].value)

\* the image is the only one of the JSON file with annotations, so that the
\* category map of the image is the one of the whole run
OnlyAnnotatedImage == Len(SourceAnnotations) = Len(annotation.annotations)

\* C18 (as stated): after MS COCO decode and encode in the same mode, the
\* re-encoded image dict holds every key of the source image record with an
\* equal value and the re-encoded annotation with the same id holds every
\* key of each source annotation with an equal value (a string id may come
\* back as the integer, a bbox list as the tuple); in hard mode every
\* category record of the source is held by the re-encoded category map.
C18_CocoRoundTripContainsSource ==
    CocoRoundTrip
        => /\ ImageRecordComesBack
           /\ AnnotationsComeBack
           /\ (mscoco_hard /\ OnlyAnnotatedImage) => CategoriesComeBack

-----------------------------------------------------------------------------
(* C24: the KEKImage under the encoders                                     *)

\* an encoder has just returned
Encodes == IsSome(kek_image) /\ IsNone(target) /\ IsSome(target')

\* C24 (as stated): every encoder leaves the KEKImage as it was: id,
\* filename, shape, the objects with class id, class name and box, and both
\* additional data dicts; so encoding it again, to any format, gives the
\* output of encoding a freshly decoded KEKImage.
C24_EncodeLeavesImageAsItWas ==
    [][Encodes
          => /\ kek_image' = kek_image
             /\ kek2darknet(kek_image'[1]) = kek2darknet(kek_image[1])
             /\ kek2pascalvoc(kek_image'[1]) = kek2pascalvoc(kek_image[1])
             /\ kek2mscoco_simple(kek_image'[1]) = kek2mscoco_simple(kek_image[1])
             /\ kek2mscoco_hard(kek_image'[1]) = kek2mscoco_hard(kek_image[1])]_vars

-----------------------------------------------------------------------------
(* C25: the lookup maps of the hard mode under decode                       *)

\* C25 (as stated): after mscoco_hard2kek has decoded an image, with or
\* without annotations, the three lookup maps (file name -> image record,
\* image id -> annotations, category id -> category record) have the keys
\* and the values construct_mscoco_dicts gave them.
C25_HardDecodeLeavesLookupMaps ==
    (FromCocoSource /\ mscoco_hard)
        => /\ coco_images = construct_mscoco_dicts(annotation).coco_images
           /\ coco_annotations = construct_mscoco_dicts(annotation).coco_annotations
           /\ coco_categories = construct_mscoco_dicts(annotation).coco_categories

-----------------------------------------------------------------------------
(* The batch: get_chunks splits the list of images, conversion_loop         *)
(* converts one chunk, process_conversion_results merges the results of     *)
(* all chunks.  The chunks share nothing, so they are converted one after   *)
(* the other, in the order of the results.                                  *)

\* a batch has at most MaxImages images and is split into at most MaxJobs chunks
MaxImages == 3
MaxJobs == 3

Smaller(a, b) == IF a <= b THEN a ELSE b

\* (mutant) chunks of len // n_jobs images each
get_chunks_of_div(paths, jobs) ==
    [i \in 1..jobs |->
        Slice(paths, (i - 1) * (Len(paths) \div jobs), i * (Len(paths) \div jobs))]

\* div, mod = divmod(len(image_paths), n_jobs);
\* image_paths[i * div + min(i, mod):(i + 1) * div + min(i + 1, mod)]
get_chunks(paths, jobs) ==
    [i \in 1..jobs |->
        Slice(paths,
              (i - 1) * (Len(paths) \div jobs) + Smaller(i - 1, Len(paths) % jobs),
              i * (Len(paths) \div jobs) + Smaller(i, Len(paths) % jobs))]

\* the image files of the directory, in the order they are listed
ImageList ==
    << CHOOSE i \in Images : i.name[1] = "a", CHOOSE i \in Images : i.name[1] = "b",
       CHOOSE i \in Images : i.name[1] = "c", CHOOSE i \in Images : i.name[1] = "d" >>

\* Darknet label files with 0, 1, 2 and 3 lines, and one with a malformed line
BatchDarknetFiles ==
    { <<>>,
      <<Label(0, BoxOnPixels)>>,
      <<Label(0, BoxOnPixels), Label(1, BoxTall)>>,
      <<Label(0, BoxOnPixels), Label(1, BoxTall), Label(0, BoxClamped)>>,
      <<Label(0, BoxOnPixels), <<"x", " ">> \o StrOfFloats(BoxTall) \o <<"\n">>>> }

\* PASCAL VOC annotations with 0, 1 and 2 objects
BatchVocFiles ==
    { Element("annotation", <<>>, <<"\n">>,
              <<Leaf("filename", <<"x", ".", "j", "p", "g">>),
                Size(StrInt(20), StrInt(10), StrInt(3))>> \o objects) :
        objects \in { <<>>,
                      <<Node("object", <<Leaf("name", Car), GoodBndbox>>)>>,
                      <<Node("object", <<Leaf("name", Car), GoodBndbox>>),
                        Node("object", <<Leaf("name", Person), GoodBndbox,
                                         Leaf("difficult", StrInt(0))>>)>> } }

\* an image of the list with the content of its annotation file
ImagePath(img, annotation_) == [image |-> img, annotation |-> annotation_]

\* the lists of the first images of the directory, each with an annotation
RECURSIVE ImagePathLists(_, _)
ImagePathLists(files, n) ==
    IF n = 0 THEN {<<>>}
    ELSE ImagePathLists(files, n - 1)
         \cup { Append(front, ImagePath(ImageList[n], file)) :
                  front \in {l \in ImagePathLists(files, n - 1) : Len(l) = n - 1},
                  file \in files }

\* the content of the info file and of the licenses file
InfoFile == JDict(<<Entry("year", JInt(2017))>>)
LicensesFile ==
    JDict(<<Entry("licenses", JList(<<JDict(<<Entry("id", JInt(1))>>)>>))>>)

InitRun ==
    /\ pc = "get_chunks"
    /\ n_jobs \in 1..MaxJobs
    /\ target_annotation_name \in {"darknet", "pascalvoc", "mscoco"}
    /\ mscoco_hard \in IF target_annotation_name = "mscoco" THEN BOOLEAN ELSE {FALSE}
    /\ mscoco_info_path = None
    /\ mscoco_licenses_path = None
    /\ chunks = <<>>
    /\ chunk_no = 0
    /\ categories_ = <<>>
    /\ coco_simple_categories = JNone
    /\ mscoco_main_dict = JNone
    /\ results = <<>>
    /\ written = <<>>
    /\ document = None
    /\ error = None

\* no single image is converted outside the batch
InitNoImage ==
    /\ image = ImageList[1]
    /\ InitNoBox
    /\ image_id = 0
    /\ annotation = <<>>
    /\ kek_image = None
    /\ target = None
    /\ warnings = <<>>
    /\ to_converter = "none"
    /\ coco_categories = <<>>
    /\ coco_images = <<>>
    /\ coco_annotations = <<>>

InitBatchDarknet ==
    /\ source_annotation_name = "darknet"
    /\ class_mapper = (0 :> Car) @@ (1 :> Person)
    /\ image_paths \in ImagePathLists(BatchDarknetFiles, MaxImages)

\* a mapper of two names to two ids, and one of two names to one id
BatchVocMappers == { (Car :> 0) @@ (Person :> 1), (Car :> 0) @@ (Person :> 0) }

InitBatchVoc ==
    /\ source_annotation_name = "pascalvoc"
    /\ class_mapper \in BatchVocMappers
    /\ image_paths \in ImagePathLists(BatchVocFiles, MaxImages)

InitBatch ==
    /\ InitBatchDarknet \/ InitBatchVoc
    /\ InitRun
    /\ InitNoImage

\* chunks = get_chunks(image_paths, n_jobs); the first chunk is next
GetChunks ==
    /\ pc = "get_chunks"
    /\ chunks' = get_chunks(image_paths, n_jobs)
    /\ chunk_no' = 1
    /\ pc' = "loop"
    /\ UNCHANGED <<image, boxVars, class_mapper, image_id, annotation, kek_image,
                   target, error, warnings, source_annotation_name, mscoco_hard,
                   coco_categories, to_converter, coco_images, coco_annotations,
                   image_paths, n_jobs, target_annotation_name, mscoco_info_path,
                   mscoco_licenses_path, categories_, coco_simple_categories,
                   mscoco_main_dict, results, written, document>>


-----------------------------------------------------------------------------
(* conversion_loop.  Its locals are categories, coco_simple_categories and  *)
(* mscoco_main_dict; image_id is the index enumerate() gives the image in   *)
(* the chunk.  What the encoder returned carries its Python type: a list    *)
(* (Darknet), a str (PASCAL VOC, the document) or a tuple (MS COCO).        *)

JTupleOf(items) == <<"tuple", items>>
JXmlString(root) == <<"xml_string", root>>

\* bool(value) of None, a str, a dict, a list or a tuple
Truthy(value) == TypeOf(value) /= "None" /\ ValueOf(value) /= <<>>

get_target_annotation_file_extension(name) ==
    CASE name = "darknet" -> <<".", "t", "x", "t">>
      [] name = "pascalvoc" -> <<".", "x", "m", "l">>
      [] name = "mscoco" -> <<".", "j", "s", "o", "n">>

\* os.path.splitext(os.path.split(image_path)[-1])[0] + extension
construct_annotation_file_path(img, annotation_file_extension) ==
    LET dots == {i \in 1..Len(img.name) : img.name[i] = "."}
        image_name == IF dots = {} THEN img.name
                      ELSE SubSeq(img.name, 1,
                                  (CHOOSE i \in dots : \A j \in dots : j <= i) - 1)
    IN  image_name \o annotation_file_extension

\* from_converter_function(image_path, image_id, *from_converter_function_args)
from_converter_function(source_name, path, id, mapper) ==
    IF source_name = "darknet"
    THEN darknet2kek(path.image, id, mapper, path.annotation)
    ELSE pascalvoc2kek(path.image, id, mapper, path.annotation)

\* to_converter_function(*to_converter_function_args)
to_converter_function(target_name, hard, kek_format) ==
    CASE target_name = "darknet" -> JList(kek2darknet(kek_format))
      [] target_name = "pascalvoc" -> JXmlString(kek2pascalvoc(kek_format))
      [] target_name = "mscoco" /\ ~hard ->
            ByValue(LAMBDA r : JTupleOf(<<<<"json", r.json_file>>, JDict(r.categories)>>),
                    kek2mscoco_simple(kek_format))
      [] target_name = "mscoco" /\ hard ->
            ByValue(LAMBDA r : JTupleOf(<<JDict(r.image_dict),
                                          JList([i \in 1..Len(r.annotations) |->
                                                    JDict(r.annotations[i])]),
                                          JDict(r.categories)>>),
                    kek2mscoco_hard(kek_format))

\* len(target_format) == 2; the str of a document is longer than two characters
len_is_2(target_format) ==
    TypeOf(target_format) /= "xml_string" /\ Len(ValueOf(target_format)) = 2

\* target_format, coco_simple_categories = target_format: the two items of a
\* tuple, or the two lines of a list
unpacked(target_format) ==
    IF TypeOf(target_format) = "tuple"
    THEN ValueOf(target_format)
    ELSE <<JStr(ValueOf(target_format)[1]), JStr(ValueOf(target_format)[2])>>

RECURSIVE concatenated(_)
concatenated(pieces) ==
    IF pieces = <<>> THEN <<>> ELSE Head(pieces) \o concatenated(Tail(pieces))

\* writer_function(target_format): what the annotation file holds afterwards.
\* writelines writes the items of its argument one after the other: the lines
\* of a list, the characters of a str.
writer_function(target_name, target_format) ==
    IF target_name = "darknet"
    THEN IF TypeOf(target_format) = "list"
         THEN <<"text", concatenated(ValueOf(target_format))>>
         ELSE <<"text", ValueOf(target_format)>>
    ELSE target_format

AnnotationFile(path, content) == [path |-> path, content |-> content]

\* the locals of conversion_loop at the start of the loop
Locals(categories, simple_categories, main_dict) ==
    [categories |-> categories, coco_simple_categories |-> simple_categories,
     mscoco_main_dict |-> main_dict]

new_mscoco_main_dict(target_name, hard) ==
    IF target_name = "mscoco" /\ hard
    THEN JDict(<<Entry("images", JList(<<>>)), Entry("annotations", JList(<<>>)),
                 Entry("categories", JDict(<<>>))>>)
    ELSE JNone

\* the outcome of one turn of the loop: the locals, and the file it wrote
Turned(locals, files) == [ok |-> TRUE, err |-> "", locals |-> locals, files |-> files]
TurnRaised(exc, locals, files) ==
    [ok |-> FALSE, err |-> exc, locals |-> locals, files |-> files]

\* the else branch of the loop: the image goes into mscoco_main_dict
into_main_dict(locals, target_format) ==
    LET image_dict == ValueOf(target_format)[1]
        annotations == ValueOf(target_format)[2]
        categories == ValueOf(target_format)[3]
        main == ValueOf(locals.mscoco_main_dict)
    IN  Locals(ValueOf(categories),
               locals.coco_simple_categories,
               JDict(<<Entry("images",
                             JList(Append(ValueOf(Get(main, "images")), image_dict))),
                       Entry("annotations",
                             JList(ValueOf(Get(main, "annotations"))
                                   \o ValueOf(annotations))),
                       Entry("categories",
                             JDict(Update(ValueOf(Get(main, "categories")),
                                          ValueOf(categories))))>>))

\* the if branch of the loop: the annotation file is written, then the
\* categories of the image are added; items() of a str raises
into_annotation_file(locals, path, target_name, target_format, simple_categories) ==
    LET file == AnnotationFile(
                    construct_annotation_file_path(
                        path.image, get_target_annotation_file_extension(target_name)),
                    writer_function(target_name, target_format))
    IN  IF ~Truthy(simple_categories)
        THEN Turned(Locals(locals.categories, simple_categories,
                           locals.mscoco_main_dict), <<file>>)
        ELSE IF TypeOf(simple_categories) /= "dict"
        THEN TurnRaised("AttributeError",
                        Locals(locals.categories, simple_categories,
                               locals.mscoco_main_dict), <<file>>)
        ELSE Turned(Locals(Update(locals.categories, ValueOf(simple_categories)),
                           simple_categories, locals.mscoco_main_dict), <<file>>)

\* the body of the loop from the encoder's result on
encoded_turn(locals, path, target_name, target_format) ==
    LET two == len_is_2(target_format)
        format == IF two THEN unpacked(target_format)[1] ELSE target_format
        simple == IF two THEN unpacked(target_format)[2]
                  ELSE locals.coco_simple_categories
    IN  IF ~Truthy(locals.mscoco_main_dict)
        THEN into_annotation_file(locals, path, target_name, format, simple)
        ELSE Turned(into_main_dict(Locals(locals.categories, simple,
                                          locals.mscoco_main_dict), format), <<>>)

\* (mutant) an image whose decoding raises is skipped
loop_body_skipping(locals, path, id, source_name, target_name, hard, mapper) ==
    ByValue(LAMBDA kek_format :
                IF ~kek_format.ok THEN Turned(locals, <<>>)
                ELSE encoded_turn(locals, path, target_name,
                                  to_converter_function(target_name, hard,
                                                        kek_format.val)),
            from_converter_function(source_name, path, id, mapper))

\* one turn of the loop of conversion_loop
loop_body(locals, path, id, source_name, target_name, hard, mapper) ==
    ByValue(LAMBDA kek_format :
                IF ~kek_format.ok THEN TurnRaised(kek_format.err, locals, <<>>)
                ELSE encoded_turn(locals, path, target_name,
                                  to_converter_function(target_name, hard,
                                                        kek_format.val)),
            from_converter_function(source_name, path, id, mapper))

\* the part of conversion_loop after the loop: result_dict
result_dict_of(locals) ==
    [mscoco_simple_categories |->
        IF Truthy(locals.coco_simple_categories)
        THEN JDict(locals.categories) ELSE JNone,
     mscoco_main_dict |->
        IF Truthy(locals.mscoco_main_dict)
        THEN JDict(SetItem(ValueOf(locals.mscoco_main_dict), "categories",
                           JList([i \in 1..Len(ValueOf(Get(ValueOf(locals.mscoco_main_dict),
                                                           "categories"))) |->
                                     JDict(ValueOf(Get(ValueOf(locals.mscoco_main_dict),
                                                       "categories"))[i].value)])))
        ELSE JNone]

CurrentLocals == Locals(categories_, coco_simple_categories, mscoco_main_dict)

\* conversion_loop is called with the next chunk: lines 91 to 101
ConversionLoopCalled ==
    /\ pc = "loop"
    /\ categories_' = <<>>
    /\ coco_simple_categories' = JNone
    /\ mscoco_main_dict' = new_mscoco_main_dict(target_annotation_name, mscoco_hard)
    /\ image_id' = 0
    /\ pc' = "for"
    /\ UNCHANGED <<image, boxVars, class_mapper, annotation, kek_image,
                   target, error, warnings, source_annotation_name, mscoco_hard,
                   coco_categories, to_converter, coco_images, coco_annotations,
                   image_paths, n_jobs, target_annotation_name, mscoco_info_path,
                   mscoco_licenses_path, chunks, chunk_no, results, written, document>>

\* one turn of the loop; an exception ends conversion_loop and the batch
ConversionLoopTurn ==
    /\ pc = "for"
    /\ image_id < Len(chunks[chunk_no])
    /\ \E r \in {loop_body(CurrentLocals, chunks[chunk_no][image_id + 1], image_id,
                           source_annotation_name, target_annotation_name,
                           mscoco_hard, class_mapper)} :
           /\ categories_' = r.locals.categories
           /\ coco_simple_categories' = r.locals.coco_simple_categories
           /\ mscoco_main_dict' = r.locals.mscoco_main_dict
           /\ written' = written \o r.files
           /\ IF r.ok
              THEN image_id' = image_id + 1 /\ pc' = "for" /\ error' = None
              ELSE image_id' = image_id /\ pc' = "raised" /\ error' = Some(r.err)
    /\ UNCHANGED <<image, boxVars, class_mapper, annotation, kek_image,
                   target, warnings, source_annotation_name, mscoco_hard,
                   coco_categories, to_converter, coco_images, coco_annotations,
                   image_paths, n_jobs, target_annotation_name, mscoco_info_path,
                   mscoco_licenses_path, chunks, chunk_no, results, document>>

\* the loop is over: conversion_loop returns result_dict, lines 145 to 153
ConversionLoopReturned ==
    /\ pc = "for"
    /\ image_id = Len(chunks[chunk_no])
    /\ results' = Append(results, result_dict_of(CurrentLocals))
    /\ IF chunk_no < n_jobs
       THEN chunk_no' = chunk_no + 1 /\ pc' = "loop"
       ELSE chunk_no' = chunk_no /\ pc' = "merge"
    /\ UNCHANGED <<image, boxVars, class_mapper, image_id, annotation, kek_image,
                   target, error, warnings, source_annotation_name, mscoco_hard,
                   coco_categories, to_converter, coco_images, coco_annotations,
                   image_paths, n_jobs, target_annotation_name, mscoco_info_path,
                   mscoco_licenses_path, chunks, categories_,
                   coco_simple_categories, mscoco_main_dict, written, document>>


-----------------------------------------------------------------------------
(* process_conversion_results: the results of the chunks are merged into    *)
(* the document of all images (hard mode) or into categories.json (simple   *)
(* mode).                                                                   *)

\* (mutant) the first category merged for an id stays
unique_categories_first_wins(pairs) ==
    LET firsts == {i \in 1..Len(pairs) : \A j \in 1..(i - 1) : pairs[j].key /= pairs[i].key}
        Rank(i) == Cardinality({j \in firsts : j <= i})
    IN  [r \in 1..Cardinality(firsts) |-> pairs[CHOOSE i \in firsts : Rank(i) = r]]

\* unique_categories.update({category_id: category}) for every pair in turn
unique_categories(pairs) == Update(<<>>, pairs)

\* the (id, category) pairs of the pieces, in the order they are merged
RECURSIVE category_pairs_hard(_)
category_pairs_hard(results_) ==
    IF results_ = <<>> THEN <<>>
    ELSE LET categories_piece ==
                 ValueOf(Get(ValueOf(Head(results_).mscoco_main_dict), "categories"))
         IN  [i \in 1..Len(categories_piece) |->
                 Entry(Get(ValueOf(categories_piece[i]), "id"), categories_piece[i])]
             \o category_pairs_hard(Tail(results_))

RECURSIVE category_pairs_simple(_)
category_pairs_simple(results_) ==
    IF results_ = <<>> THEN <<>>
    ELSE [i \in 1..Len(ValueOf(Head(results_).mscoco_simple_categories)) |->
             Entry(ValueOf(Head(results_).mscoco_simple_categories)[i].key,
                   JDict(ValueOf(Head(results_).mscoco_simple_categories)[i].value))]
         \o category_pairs_simple(Tail(results_))

\* category_list = [category for category in unique_categories.values()]
category_list(unique) == JList([i \in 1..Len(unique) |-> unique[i].value])

\* the items of result_dict['mscoco_main_dict'][key] of every result, in order
RECURSIVE extended(_, _)
extended(results_, key) ==
    IF results_ = <<>> THEN <<>>
    ELSE ValueOf(Get(ValueOf(Head(results_).mscoco_main_dict), key))
         \o extended(Tail(results_), key)

\* (mutant) the info section is never added
no_info_section(info_path) == <<>>

\* add_info_section: dict_to_add['info'] = info
add_info_section(info_path) ==
    IF IsSome(info_path) THEN <<Entry("info", info_path[1])>> ELSE <<>>

\* add_licenses_section: dict_to_add['licenses'] = licenses['licenses']
add_licenses_section(licenses_path) ==
    IF IsSome(licenses_path)
    THEN <<Entry("licenses", Get(ValueOf(licenses_path[1]), "licenses"))>> ELSE <<>>

\* the branch of results[0]['mscoco_main_dict']
create_mscoco_big_dict(results_, info_path, licenses_path) ==
    JDict(add_info_section(info_path)
          \o add_licenses_section(licenses_path)
          \o <<Entry("images", JList(extended(results_, "images"))),
               Entry("annotations", JList(extended(results_, "annotations"))),
               Entry("categories",
                     category_list(unique_categories(category_pairs_hard(results_))))>>)

\* what process_conversion_results leaves: the document, the files, or an error
Processed(doc, files) == [ok |-> TRUE, err |-> "", document |-> doc, files |-> files]

CategoriesJson == <<"c", "a", "t", "e", "g", "o", "r", "i", "e", "s", ".", "j", "s", "o", "n">>

\* items() of the None a chunk returned raises
process_conversion_results(results_, licenses_path, info_path) ==
    IF Truthy(results_[1].mscoco_main_dict)
    THEN Processed(Some(create_mscoco_big_dict(results_, info_path, licenses_path)), <<>>)
    ELSE IF Truthy(results_[1].mscoco_simple_categories)
    THEN IF \E i \in 1..Len(results_) :
                TypeOf(results_[i].mscoco_simple_categories) = "None"
         THEN [ok |-> FALSE, err |-> "AttributeError", document |-> None, files |-> <<>>]
         ELSE Processed(None,
                        <<AnnotationFile(CategoriesJson,
                              category_list(unique_categories(
                                  category_pairs_simple(results_))))>>)
    ELSE Processed(None, <<>>)

\* the info file and the licenses file are configured for hard mode, or not
InfoPaths == IF mscoco_hard THEN {None, Some(InfoFile)} ELSE {None}
LicensesPaths == IF mscoco_hard THEN {None, Some(LicensesFile)} ELSE {None}

ProcessConversionResults ==
    /\ pc = "merge"
    /\ \E info_path \in InfoPaths, licenses_path \in LicensesPaths :
           /\ mscoco_info_path' = info_path
           /\ mscoco_licenses_path' = licenses_path
           /\ \E r \in {process_conversion_results(results, licenses_path, info_path)} :
                  /\ document' = r.document
                  /\ written' = written \o r.files
                  /\ IF r.ok THEN pc' = "done" /\ error' = None
                     ELSE pc' = "raised" /\ error' = Some(r.err)
    /\ UNCHANGED <<image, boxVars, class_mapper, image_id, annotation, kek_image,
                   target, warnings, source_annotation_name, mscoco_hard,
                   coco_categories, to_converter, coco_images, coco_annotations,
                   image_paths, n_jobs, target_annotation_name, chunks, chunk_no,
                   categories_, coco_simple_categories, mscoco_main_dict, results>>

NextBatch ==
    \/ GetChunks
    \/ ConversionLoopCalled
    \/ ConversionLoopTurn
    \/ ConversionLoopReturned
    \/ ProcessConversionResults

SpecBatch == InitBatch /\ [][NextBatch]_vars


-----------------------------------------------------------------------------
(* C30: get_chunks(image_paths, n_jobs) returns exactly n_jobs chunks;      *)
(* their concatenation in order is image_paths, so every image is in        *)
(* exactly one chunk; the sizes of two chunks differ by at most one.        *)

ChunksMade == pc /= "get_chunks"

C30_GetChunksPartitions ==
    ChunksMade => /\ Len(chunks) = n_jobs
             /\ concatenated(chunks) = image_paths
             /\ \A i, j \in 1..Len(chunks) : Len(chunks[i]) - Len(chunks[j]) <= 1

\* an uneven split
C30_Witness ==
    /\ ChunksMade
    /\ \E i, j \in 1..Len(chunks) : Len(chunks[i]) = 2 /\ Len(chunks[j]) = 1

\* more chunks than images: a chunk is empty
C30_WitnessEmptyChunk ==
    /\ ChunksMade
    /\ image_paths /= <<>>
    /\ \E i \in 1..Len(chunks) : chunks[i] = <<>>


-----------------------------------------------------------------------------
(* The images conversion_loop has converted so far, each with the index it  *)
(* had in its chunk, in the order of the chunks.                            *)

TurnsDone(c) ==
    IF c < chunk_no THEN Len(chunks[c])
    ELSE IF c = chunk_no /\ pc \in {"for", "raised", "merge", "done"} THEN image_id
    ELSE 0

ConvertedOf(c) == [k \in 1..TurnsDone(c) |-> [path |-> chunks[c][k], id |-> k - 1]]

Converted == concatenated([c \in 1..Len(chunks) |-> ConvertedOf(c)])

DecodedItem(item) ==
    from_converter_function(source_annotation_name, item.path, item.id, class_mapper)

-----------------------------------------------------------------------------
(* C28: for a Darknet or PASCAL VOC target conversion_loop writes, for      *)
(* every image of the chunk, one annotation file that holds what the        *)
(* encoder returned for the image (Darknet: the lines of all objects, in    *)
(* order), whatever the number of objects; it raises only when the decoding *)
(* of an image raises, and the result it returns holds None twice.          *)

EncodedFile(item) ==
    AnnotationFile(
        construct_annotation_file_path(
            item.path.image, get_target_annotation_file_extension(target_annotation_name)),
        IF target_annotation_name = "darknet"
        THEN <<"text", concatenated(kek2darknet(DecodedItem(item).val))>>
        ELSE JXmlString(kek2pascalvoc(DecodedItem(item).val)))

C28_FileTargetWritesEncoderOutput ==
    target_annotation_name \in {"darknet", "pascalvoc"}
        => /\ written = [k \in 1..Len(Converted) |-> EncodedFile(Converted[k])]
           /\ \A i \in 1..Len(results) :
                  /\ results[i].mscoco_simple_categories = JNone
                  /\ results[i].mscoco_main_dict = JNone
           /\ pc = "raised" => ~DecodedItem([path |-> chunks[chunk_no][image_id + 1],
                                         id |-> image_id]).ok


-----------------------------------------------------------------------------
(* C27: when the decoding or the encoding of an image of the chunk raises,  *)
(* conversion_loop propagates the exception: the error is the caller's, no  *)
(* later image of the chunk is converted, no result is returned for the     *)
(* chunk, and nothing runs afterwards.                                      *)

CurrentItem == [path |-> chunks[chunk_no][image_id + 1], id |-> image_id]

TurnRaises ==
    /\ pc = "for"
    /\ image_id < Len(chunks[chunk_no])
    /\ \/ ~DecodedItem(CurrentItem).ok
       \/ ~loop_body(CurrentLocals, CurrentItem.path, image_id, source_annotation_name,
                     target_annotation_name, mscoco_hard, class_mapper).ok

C27_ErrorEndsTheChunk ==
    [][/\ TurnRaises
          => /\ pc' = "raised"
             /\ IsSome(error')
             /\ ~DecodedItem(CurrentItem).ok => error' = Some(DecodedItem(CurrentItem).err)
             /\ image_id' = image_id
             /\ results' = results
       /\ pc = "raised" => pc' = "raised"]_vars

\* the second of three images of a chunk has a malformed label: the first is
\* converted, the third is not
C27_Witness ==
    /\ pc = "raised"
    /\ error = Some("ValueError")
    /\ image_id = 1
    /\ Len(chunks[chunk_no]) = 3
    /\ Len(written) = 1
    /\ results = <<>>


-----------------------------------------------------------------------------
(* C29: a Darknet or PASCAL VOC dataset converted to hard MS COCO: in the   *)
(* merged document no two image records have the same id, and the image_id  *)
(* of every annotation is the id of the image record of the image the       *)
(* annotation was decoded from.                                             *)

MergedHard == pc = "done" /\ mscoco_hard /\ IsSome(document)

DocumentList(key) == ValueOf(Get(ValueOf(document[1]), key))

\* the position, among the annotations of the document, of the first
\* annotation of the k-th converted image
AnnotationsBefore(k) ==
    Len(concatenated([j \in 1..(k - 1) |-> DecodedItem(Converted[j]).val.kek_objects]))

C29_ImageIdsDistinct ==
    MergedHard
        => /\ \A i, j \in 1..Len(DocumentList("images")) :
                  i /= j => Get(ValueOf(DocumentList("images")[i]), "id")
                                /= Get(ValueOf(DocumentList("images")[j]), "id")
           /\ \A k \in 1..Len(Converted) :
                  \A o \in 1..Len(DecodedItem(Converted[k]).val.kek_objects) :
                      Get(ValueOf(DocumentList("annotations")[AnnotationsBefore(k) + o]),
                          "image_id")
                          = Get(ValueOf(DocumentList("images")[k]), "id")


-----------------------------------------------------------------------------
(* C23: simple MS COCO target: the category list persisted at the end has   *)
(* exactly one record per category id that occurs on an object of an image  *)
(* of a chunk, for every list of images and every split into chunks, empty  *)
(* chunks included; the merge does not raise.                               *)

SimpleTarget == target_annotation_name = "mscoco" /\ ~mscoco_hard

CategoriesFiles == {i \in 1..Len(written) : written[i].path = CategoriesJson}

\* the category ids of the objects of the converted images
CategoryIdsOfObjects ==
    UNION { {JInt(DecodedItem(Converted[k]).val.kek_objects[o].class_id + 1) :
                 o \in 1..Len(DecodedItem(Converted[k]).val.kek_objects)} :
            k \in 1..Len(Converted) }

OneRecordPerId(list) ==
    /\ \A i, j \in 1..Len(list) :
           i /= j => Get(ValueOf(list[i]), "category_id") /= Get(ValueOf(list[j]), "category_id")
    /\ {Get(ValueOf(list[i]), "category_id") : i \in 1..Len(list)} = CategoryIdsOfObjects

C23_SimpleCategoriesPersisted ==
    SimpleTarget
        => /\ pc = "done"
                => IF CategoriesFiles = {} THEN CategoryIdsOfObjects = {}
                   ELSE /\ Cardinality(CategoriesFiles) = 1
                        /\ \A i \in CategoriesFiles : OneRecordPerId(ValueOf(written[i].content))
           /\ pc = "raised" => Len(results) < n_jobs


-----------------------------------------------------------------------------
(* C22: hard MS COCO target: after every chunk is converted and the results *)
(* are merged, the document has one image record per image of the list, one *)
(* annotation per object of those images, one category per category id of   *)
(* those objects, 'info' exactly when the info file is configured and       *)
(* 'licenses' exactly when the licenses file is configured.                 *)

HardDone == pc = "done" /\ mscoco_hard

\* the objects of every converted image
ConvertedObjects == [k \in 1..Len(Converted) |-> DecodedItem(Converted[k]).val.kek_objects]

ConvertedNames ==
    [k \in 1..Len(Converted) |-> JStr(DecodedItem(Converted[k]).val.filename)]

ObjectsBefore(objects, k) == Len(concatenated(SubSeq(objects, 1, k - 1)))

IdsOf(records, key) == [i \in 1..Len(records) |-> Get(ValueOf(records[i]), key)]

Distinct(seq) == \A i, j \in 1..Len(seq) : i /= j => seq[i] /= seq[j]

Range(seq) == {seq[i] : i \in 1..Len(seq)}

SectionsAsConfigured(doc) ==
    /\ "info" \in Keys(doc) <=> IsSome(mscoco_info_path)
    /\ "info" \in Keys(doc) => Get(doc, "info") = InfoFile
    /\ "licenses" \in Keys(doc) <=> IsSome(mscoco_licenses_path)
    /\ "licenses" \in Keys(doc)
           => Get(doc, "licenses") = Get(ValueOf(LicensesFile), "licenses")

C22_HardDocumentAssembled ==
    HardDone
        => /\ IsSome(document)
           /\ \E objects \in {ConvertedObjects}, doc \in {ValueOf(document[1])} :
                  /\ Len(Converted) = Len(image_paths)
                  /\ IdsOf(ValueOf(Get(doc, "images")), "file_name")
                         = ConvertedNames
                  /\ IdsOf(ValueOf(Get(doc, "annotations")), "category_id")
                         = concatenated([k \in 1..Len(objects) |->
                                           [o \in 1..Len(objects[k]) |->
                                               JInt(objects[k][o].class_id + 1)]])
                  /\ Distinct(IdsOf(ValueOf(Get(doc, "categories")), "id"))
                  /\ Range(IdsOf(ValueOf(Get(doc, "categories")), "id"))
                         = UNION { {JInt(objects[k][o].class_id + 1) :
                                        o \in 1..Len(objects[k])} :
                                   k \in 1..Len(objects) }
                  /\ SectionsAsConfigured(doc)

\* two chunks that share a category, the info file configured, the licenses
\* file not
C22_Witness ==
    /\ HardDone
    /\ n_jobs = 2
    /\ Len(image_paths) = 3
    /\ \A c \in 1..2 : \E k \in 1..Len(chunks[c]) :
           \E o \in 1..Len(DecodedItem([path |-> chunks[c][k], id |-> k - 1]).val.kek_objects) :
               DecodedItem([path |-> chunks[c][k], id |-> k - 1]).val.kek_objects[o].class_id = 0
    /\ Len(DocumentList("categories")) = 2
    /\ IsSome(mscoco_info_path)
    /\ IsNone(mscoco_licenses_path)


-----------------------------------------------------------------------------
(* conversion_loop as a function of its chunk: the turns of the loop one    *)
(* after the other, then result_dict; an exception ends it.                 *)

RECURSIVE turns_from(_, _, _, _, _, _, _)
turns_from(locals, chunk, id, source_name, target_name, hard, mapper) ==
    IF id = Len(chunk) THEN Turned(locals, <<>>)
    ELSE ByValue(LAMBDA r :
                     IF ~r.ok THEN r
                     ELSE ByValue(LAMBDA rest : [rest EXCEPT !.files = r.files \o @],
                                  turns_from(r.locals, chunk, id + 1, source_name,
                                             target_name, hard, mapper)),
                 loop_body(locals, chunk[id + 1], id, source_name, target_name,
                           hard, mapper))

conversion_loop(chunk, source_name, target_name, hard, mapper) ==
    ByValue(LAMBDA r : [ok |-> r.ok, err |-> r.err, files |-> r.files,
                        result_dict |-> result_dict_of(r.locals)],
            turns_from(Locals(<<>>, JNone, new_mscoco_main_dict(target_name, hard)),
                       chunk, 0, source_name, target_name, hard, mapper))

-----------------------------------------------------------------------------
(* C26: the merged MS COCO output of a list of images has the same content  *)
(* for every number of chunks: the set of image records, the set of         *)
(* annotations and the categories by id are those of the run that converts  *)
(* the whole list as one chunk.                                             *)

\* the whole list converted as one chunk and merged
SingleChunkRun ==
    ByValue(LAMBDA r :
                IF ~r.ok THEN [ok |-> FALSE, document |-> None, files |-> <<>>]
                ELSE process_conversion_results(<<r.result_dict>>, mscoco_licenses_path,
                                                mscoco_info_path),
            conversion_loop(image_paths, source_annotation_name, target_annotation_name,
                            mscoco_hard, class_mapper))

RecordsOf(doc, key) == Range(ValueOf(Get(ValueOf(doc[1]), key)))

CategoryFilesOf(files) ==
    {ValueOf(files[i].content) : i \in {j \in 1..Len(files) : files[j].path = CategoriesJson}}

SameContent(single) ==
    /\ single.ok
    /\ IsSome(document) <=> IsSome(single.document)
    /\ IsSome(document)
           => \A key \in {"images", "annotations", "categories"} :
                  RecordsOf(document, key) = RecordsOf(single.document, key)
    /\ {Range(list) : list \in CategoryFilesOf(written)}
           = {Range(list) : list \in CategoryFilesOf(single.files)}

C26_SameContentForEveryChunking ==
    (target_annotation_name = "mscoco" /\ pc = "done")
        => \E single \in {SingleChunkRun} : SameContent(single)


-----------------------------------------------------------------------------
(* C21: the category registry, within a chunk (mscoco_main_dict             *)
(* ['categories'] in hard mode, categories in simple mode) and in the       *)
(* merged document, holds one record per category id, and it is the last    *)
(* record merged for that id; merging the records of an image that are all  *)
(* in the registry, with the same content, leaves the registry as it was.   *)

MscocoTarget == target_annotation_name = "mscoco"

IdKey == IF mscoco_hard THEN "id" ELSE "category_id"

\* the registry of the chunk that is being converted
Registry ==
    IF mscoco_hard THEN ValueOf(Get(ValueOf(mscoco_main_dict), "categories"))
    ELSE categories_

\* the registry of the merged document, by id
MergedRegistry ==
    [i \in 1..Len(DocumentList("categories")) |->
        Entry(Get(ValueOf(DocumentList("categories")[i]), "id"),
              ValueOf(DocumentList("categories")[i]))]

ObjectsOfItems(items) ==
    concatenated([k \in 1..Len(items) |-> DecodedItem(items[k]).val.kek_objects])

LastOfId(objects, id) ==
    objects[CHOOSE i \in 1..Len(objects) :
                /\ JInt(objects[i].class_id + 1) = id
                /\ \A j \in (i + 1)..Len(objects) : JInt(objects[j].class_id + 1) /= id]

HoldsLastRecords(registry, objects) ==
    /\ \A i, j \in 1..Len(registry) : i /= j => registry[i].key /= registry[j].key
    /\ Keys(registry) = {JInt(objects[i].class_id + 1) : i \in 1..Len(objects)}
    /\ \A i \in 1..Len(registry) :
           registry[i].value = category_dict(LastOfId(objects, registry[i].key), IdKey)

RegistryHoldsLastRecords ==
    /\ (MscocoTarget /\ pc = "for")
           => \E objects \in {ObjectsOfItems(ConvertedOf(chunk_no))} :
                  HoldsLastRecords(Registry, objects)
    /\ MergedHard
           => \E objects \in {ObjectsOfItems(Converted)} :
                  HoldsLastRecords(MergedRegistry, objects)

\* the records of the image of this turn are in the registry as they are
AllPresent ==
    /\ MscocoTarget
    /\ pc = "for"
    /\ image_id < Len(chunks[chunk_no])
    /\ DecodedItem(CurrentItem).ok
    /\ \E records \in {categories_of(DecodedItem(CurrentItem).val.kek_objects, IdKey)} :
           /\ records /= <<>>
           /\ \A i \in 1..Len(records) :
                  /\ records[i].key \in Keys(Registry)
                  /\ Get(Registry, records[i].key) = records[i].value

C21_RegistryLastWriteWins ==
    /\ []RegistryHoldsLastRecords
    /\ [][(AllPresent /\ pc' = "for") => Registry' = Registry]_vars

\* two chunks gave different records for one id: the document has the later
C21_Witness ==
    /\ MergedHard
    /\ n_jobs = 2
    /\ Len(DocumentList("categories")) = 1
    /\ \E objects \in {ObjectsOfItems(Converted)} :
           /\ \E i, j \in 1..Len(objects) : objects[i].class_name /= objects[j].class_name
           /\ objects[1].class_name /= objects[Len(objects)].class_name
           /\ Get(ValueOf(DocumentList("categories")[1]), "name")
                  = JStr(objects[Len(objects)].class_name)
    /\ \A c \in 1..2 : chunks[c] /= <<>>

\* an image whose categories are all in the registry of the chunk was merged
C21_WitnessSameAgain ==
    /\ MscocoTarget
    /\ pc = "for"
    /\ image_id >= 2
    /\ \E objects \in {ObjectsOfItems(SubSeq(ConvertedOf(chunk_no), 1, image_id - 1))},
          last \in {DecodedItem(ConvertedOf(chunk_no)[image_id]).val.kek_objects} :
           /\ last /= <<>>
           /\ \A o \in 1..Len(last) : \E i \in 1..Len(objects) :
                  /\ objects[i].class_id = last[o].class_id
                  /\ objects[i].class_name = last[o].class_name

=============================================================================
